---- MODULE Spec2Model ----
(***************************************************************************)
(* State-machine model of the download orchestrator of BandcampDownloader  *)
(* (go/internal/download, Manager): Initialize, StartDownloads,            *)
(* downloadAlbum, downloadArtwork, downloadTrack and waitForRetry, with    *)
(* the two errgroup pools and the contexts derived from the caller's.      *)
(*                                                                         *)
(* Units: sizes are bytes; waits are milliseconds (0.2 s = 200 ms, the     *)
(* products 0.2 * 4^i * 1e9 are exact float64 integers for the i used      *)
(* here); AllowedFileSizeDifference is in percent (0.05 = 5).              *)
(***************************************************************************)
EXTENDS Naturals, Integers, Sequences, FiniteSets, TLC

\* -------------------------------------------------------------- bounds
NumAlbums == 2     \* albums in the release list
NumTracks == 2     \* tracks of one album
MaxRetries == 3    \* configured DownloadMaxRetries
MaxLoad == 8        \* work of one run: transfer attempts * albums running at once

\* ---------------------------------------------------- program constants
DownloadRetryCooldownMs == 200
DownloadRetryExponent == 4
AllowedFileSizeDifferencePct == 5

VARIABLES
    settings,         \* Manager.settings (the fields the orchestrator reads)
    albums,           \* Manager.albums: sequence of [tracks, hasArtwork]
    downloadedFiles,  \* Manager.downloadedFiles (atomic counter)
    receivedBytes,    \* Manager.receivedBytes (atomic counter)
    ctxCancelled,     \* the caller's context: cancel() was called
    sdPc,             \* StartDownloads: "idle" | "spawn" | "wait" | "returned"
    sdNext,           \* StartDownloads: index of the next album handed to g.Go
    groupErr,         \* outer errgroup: first non-nil error returned by a task
    sdResult,         \* what StartDownloads returned ("none" until it returns)
    album,            \* per album: the downloadAlbum task
    track,            \* per track: the downloadTrack task (artwork: the bytes it
                      \* was given are not nil; tagged: what SaveTags wrote)
    lastStat,         \* what os.Stat and the size probe saw, when the latest step
                      \* was downloadTrack's stat (NoStat otherwise)
    cancelledMidRun,  \* history: cancel() came while transfers were unfinished
    lateAlbumStart,   \* history: a downloadAlbum task began after cancel()
    lateTrackStart,   \* history: a downloadTrack task began after cancel()
    totalFiles,       \* Manager.totalFiles
    totalBytes,       \* Manager.totalBytes
    initPc,           \* Initialize: "idle" | "resolve" | "fetch" | "totals" | "returned"
    initCalls,        \* how many times Initialize was called on this Manager
    inputURLs,        \* Initialize: the lines of its inputURLs argument
    initIdx,          \* Initialize: position of the running loop
    allAlbumURLs,     \* Initialize: the local allAlbumURLs
    fetched,          \* history: per album URL of this call, what GetString gave
    initEvents,       \* history: the Error and Info events of this call
    initResult,       \* what Initialize returned ("none" until it returns)
    albumsBefore,     \* history: Manager.albums when Initialize was called
    callFn,           \* the function called last outside a Manager ("none" at first)
    callArg,          \* its argument
    callRes,          \* what it returned
    uiState,          \* tui Model.state: "Input" | "Initializing" | "Downloading" |
                      \* "Complete" | "Error"
    uiText,           \* tui Model.textInput holds a non-empty value
    uiCtx,            \* tui Model.ctx: which context the Model holds
    uiManager,        \* tui Model.manager: 0 (nil) or the run that created it
    uiQuit,           \* Update returned tea.Quit
    cancelledCtx,     \* the contexts whose cancel() was called
    cmds,             \* the commands Update returned that are still running
    msgs,             \* the messages of finished commands not yet handled
    numRuns,          \* how many times enter started initializeDownload
    uiRun,            \* history: the run the screen is about
    cancelledRuns,    \* history: the runs the user cancelled with esc
    handled,          \* the completion message the latest Update handled
                      \* (NoMsg otherwise)
    release,          \* one model.Album with its Tracks (NoRelease before NewAlbum)
    relPc,            \* what is done with it: "none" | "tracks" | "lyrics" |
                      \* "totals" | "mkdir" | "files" | "done"
    relIdx,           \* position of extractLyrics' loop over the Tracks
    disk              \* the paths the download created on disk

vars == <<settings, albums, downloadedFiles, receivedBytes, ctxCancelled, sdPc, sdNext,
          groupErr, sdResult, album, track, lastStat, cancelledMidRun,
          lateAlbumStart, lateTrackStart, totalFiles, totalBytes, initPc,
          initCalls, inputURLs, initIdx, allAlbumURLs, fetched, initEvents,
          initResult, albumsBefore, callFn, callArg, callRes, uiState, uiText,
          uiCtx, uiManager, uiQuit, cancelledCtx, cmds, msgs, numRuns, uiRun,
          cancelledRuns, handled, release, relPc, relIdx, disk>>

\* The latest call of a function that has no Manager behind it.
callVars == <<callFn, callArg, callRes>>

\* The terminal UI: its Model and the commands and messages of its program.
tuiVars == <<uiState, uiText, uiCtx, uiManager, uiQuit, cancelledCtx, cmds, msgs,
             numRuns, uiRun, cancelledRuns, handled>>

\* What no step of a Manager writes: the calls made outside it, the terminal
\* UI, and the receivedBytes counter, which GetProgress loads and no
\* statement stores to.
outsideVars == <<callVars, receivedBytes, tuiVars, release, relPc, relIdx, disk>>

\* One release object and the files made from it.
releaseVars == <<release, relPc, relIdx, disk>>

\* No release object was constructed yet.
NoRelease ==
    /\ release = [Artist |-> <<>>, Title |-> <<>>, ArtworkURL |-> <<>>,
                  ReleaseDate |-> [year |-> 1, month |-> 1, day |-> 1], Path |-> <<>>,
                  PlaylistPath |-> <<>>, ArtworkPath |-> <<>>, Tracks |-> <<>>]
    /\ relPc = "none"
    /\ relIdx = 1
    /\ disk = {}

\* handled when the latest step handled no completion message.
NoMsg == [kind |-> "none", run |-> 0, started |-> FALSE]

\* tui.NewModel: the input screen, an empty text, a fresh context.
NewModel ==
    /\ uiState = "Input"
    /\ uiText = FALSE
    /\ uiCtx = 1
    /\ uiManager = 0
    /\ uiQuit = FALSE
    /\ cancelledCtx = {}
    /\ cmds = {}
    /\ msgs = {}
    /\ numRuns = 0
    /\ uiRun = 0
    /\ cancelledRuns = {}
    /\ handled = NoMsg

\* Nothing was called yet.
NoCall == callFn = "none" /\ callArg = <<>> /\ callRes = <<>>

\* What StartDownloads and its tasks never write.
initVars == <<totalFiles, totalBytes, initPc, initCalls, inputURLs, initIdx,
              allAlbumURLs, fetched, initEvents, initResult, albumsBefore>>

\* What Initialize never writes.
downloadVars == <<downloadedFiles, sdPc, sdNext, groupErr, sdResult, album, track,
                  lastStat, cancelledMidRun, lateAlbumStart, lateTrackStart>>

AlbumIds == 1..NumAlbums
TrackIds == AlbumIds \X (1..NumTracks)

\* The tracks of album a that exist in the release list.
TracksOf(a) == {t \in TrackIds : t[1] = a /\ a <= Len(albums) /\ t[2] <= albums[a].tracks}

Abs(x) == IF x < 0 THEN -x ELSE x

RECURSIVE Pow(_, _)
Pow(b, e) == IF e = 0 THEN 1 ELSE b * Pow(b, e - 1)

\* ------------------------------------------------------------ contexts

\* errgroup.WithContext(ctx) in StartDownloads: done when the caller cancels,
\* when a task of the group returns a non-nil error, or when Wait returns.
GroupCtxDone == ctxCancelled \/ groupErr # "nil" \/ sdPc = "returned"

\* The tasks of an album's inner group never return an error (TrackTaskResult),
\* so the inner context is done when the outer one is or the inner Wait returned.
TrackTaskResultReturnsErr(err) == err

TrackTaskResult(err) == "nil"

AlbumCtxDone(a) ==
    \/ GroupCtxDone
    \/ album[a].pc = "done"
    \/ album[a].innerErr # "nil"

\* errgroup.Group.Go under SetLimit(n): blocks while n tasks are active; a
\* negative n means no limit.
GoAllowedNoLimit(limit, running) == TRUE

GoAllowed(limit, running) == limit < 0 \/ running < limit

RunningAlbums == Cardinality({a \in AlbumIds : album[a].pc \notin {"idle", "done"}})

RunningTracks(a) == Cardinality({t \in TracksOf(a) : track[t].pc \notin {"idle", "done"}})

\* ------------------------------------------------------------- helpers

\* waitForRetry: cooldown * exponent^tries, in milliseconds.
waitForRetryMs(tries) == DownloadRetryCooldownMs * Pow(DownloadRetryExponent, tries)

\* downloadTrack's skip test: the file exists, the probed size is positive
\* (a failed probe yields 0) and |local - expected| / expected <= tolerance.
ShouldSkipNoAbs(exists, local, probeOk, remote) ==
    LET expectedSize == IF probeOk THEN remote ELSE 0
    IN  /\ exists
        /\ expectedSize > 0
        /\ (local - expectedSize) * 100 <= AllowedFileSizeDifferencePct * expectedSize

ShouldSkip(exists, local, probeOk, remote) ==
    LET expectedSize == IF probeOk THEN remote ELSE 0
    IN  /\ exists
        /\ expectedSize > 0
        /\ Abs(local - expectedSize) * 100 <= AllowedFileSizeDifferencePct * expectedSize

\* The retry loops' condition: tries < DownloadMaxRetries.
RetryLoopContinuesOneMore(tries) == tries <= settings.DownloadMaxRetries

RetryLoopContinues(tries) == tries < settings.DownloadMaxRetries

\* A failed DownloadFile in downloadTrack: the Retry event, then waitForRetry.
TrackAttemptFailed(tr, partial) ==
    [tr EXCEPT !.pc = "backoff",
               !.err = TRUE,
               !.retryEv = @ + 1,
               !.file = IF partial THEN "partial" ELSE @,
               !.waits = Append(@, waitForRetryMs(tr.tries))]

\* downloadTrack's tagging step: SaveTags is called when ModifyTags is set or
\* when SaveCoverArtInTags is set and there are artwork bytes; it embeds the
\* artwork whenever the bytes it is given are not nil.
SaveTags(artwork) ==
    IF settings.ModifyTags \/ (settings.SaveCoverArtInTags /\ artwork)
    THEN IF artwork THEN "artwork" ELSE "text"
    ELSE "none"

\* downloadTrack after its loop: err # nil returns it (the task reports the
\* Error event); otherwise the file is counted and the track succeeds.
TrackLoopExit(tr) ==
    IF tr.err
    THEN [tr EXCEPT !.pc = "done", !.result = "err", !.errEv = @ + 1]
    ELSE [tr EXCEPT !.pc = "done", !.result = "ok", !.tagged = SaveTags(tr.artwork)]

\* One pass through the loop head: the next DownloadFile is called while the
\* loop continues; a call under a context that is already done fails at once.
TrackLoopHead(tr, ctxDone) ==
    IF RetryLoopContinues(tr.tries)
    THEN IF ctxDone
         THEN TrackAttemptFailed([tr EXCEPT !.attempts = @ + 1], FALSE)
         ELSE [tr EXCEPT !.pc = "inflight", !.attempts = @ + 1]
    ELSE TrackLoopExit(tr)

\* What a track task that just ended adds to the counters.
CountedOkOnly(old, new) ==
    IF old.pc # "done" /\ new.pc = "done" /\ new.result = "ok" THEN 1 ELSE 0

Counted(old, new) ==
    IF old.pc # "done" /\ new.pc = "done" /\ new.result \in {"ok", "skipped"} THEN 1 ELSE 0

\* The task wrapped around downloadTrack ended: an error is reported and
\* swallowed (TrackTaskResult), a success is added to successCount.
TaskEnded(al, old, new) ==
    IF old.pc # "done" /\ new.pc = "done"
    THEN IF new.result = "err"
         THEN [al EXCEPT !.innerErr = IF @ = "nil" THEN TrackTaskResult("track") ELSE @]
         ELSE [al EXCEPT !.successCount = @ + 1]
    ELSE al

\* downloadAlbum once the artwork step is over: the track tasks are handed
\* to the inner group, or Wait is reached at once when there is no track.
TracksPhase(al, a) ==
    [al EXCEPT !.pc = IF albums[a].tracks = 0 THEN "wait" ELSE "spawn"]

\* A failed DownloadBytes in downloadArtwork: waitForRetry.
ArtAttemptFailed(al) == [al EXCEPT !.pc = "artBackoff", !.err = TRUE]

\* downloadArtwork after its loop, and downloadAlbum's handling of its result.
ArtLoopExit(al, a) ==
    IF al.err
    THEN TracksPhase([al EXCEPT !.artResult = "err", !.artwork = FALSE, !.artWarnEv = @ + 1], a)
    ELSE TracksPhase([al EXCEPT !.artResult = "ok"], a)

ArtLoopHead(al, a, ctxDone) ==
    IF RetryLoopContinues(al.tries)
    THEN IF ctxDone THEN ArtAttemptFailed(al) ELSE [al EXCEPT !.pc = "artwork"]
    ELSE ArtLoopExit(al, a)

ArtCounted(old, new) == IF old.artResult = "none" /\ new.artResult = "ok" THEN 1 ELSE 0

\* -------------------------------------------------------------- Init

\* downloadAlbum downloads the artwork when a cover-art setting asks for it
\* and the album has an artwork URL.
WantsArtwork(st, al) ==
    (st.SaveCoverArtInTags \/ st.SaveCoverArtInFolder) /\ al.hasArtwork

\* The files a run transfers: every track, and every wanted artwork.
RECURSIVE Files(_, _)
Files(st, list) ==
    IF list = <<>> THEN 0
    ELSE Head(list).tracks + (IF WantsArtwork(st, Head(list)) THEN 1 ELSE 0)
         + Files(st, Tail(list))

\* calculateTotals' count: every track, and the artwork of an album that has one.
RECURSIVE CountFiles(_)
CountFiles(list) ==
    IF list = <<>> THEN 0
    ELSE Head(list).tracks + (IF Head(list).hasArtwork THEN 1 ELSE 0)
         + CountFiles(Tail(list))

Settings ==
    [MaxConcurrentAlbumsDownload : 1..NumAlbums,
     MaxConcurrentTracksDownload : 1..NumTracks,
     DownloadMaxRetries : 1..MaxRetries,
     SaveCoverArtInTags : {TRUE},
     SaveCoverArtInFolder : {FALSE},
     ModifyTags : {TRUE},
     DownloadArtistDiscography : {FALSE}]

\* Release lists: up to NumAlbums albums of one shape.
AlbumLists ==
    {[i \in 1..n |-> shape] :
        n \in 0..NumAlbums, shape \in [tracks : 0..NumTracks, hasArtwork : BOOLEAN]}

\* The configurations and release lists a run starts from. A limit above the
\* number of tasks behaves as that number, so such limits are left out.
Scenario(st, list) ==
    /\ st.MaxConcurrentAlbumsDownload <= IF Len(list) = 0 THEN 1 ELSE Len(list)
    /\ \A i \in 1..Len(list) :
         st.MaxConcurrentTracksDownload <= IF list[i].tracks = 0 THEN 1 ELSE list[i].tracks
    /\ Len(list) = 0 => st.MaxConcurrentTracksDownload = 1
    /\ Files(st, list) * st.DownloadMaxRetries * st.MaxConcurrentAlbumsDownload <= MaxLoad

\* lastStat when the latest step was not downloadTrack's stat.
NoStat == [t |-> <<0, 0>>, exists |-> FALSE, local |-> 0, probeOk |-> FALSE, remote |-> 0]

IdleAlbum ==
    [pc |-> "idle", tries |-> 0, err |-> FALSE, artwork |-> FALSE, artResult |-> "none",
     next |-> 1, successCount |-> 0, innerErr |-> "nil", report |-> "none",
     mkdirErrEv |-> 0, artWarnEv |-> 0]

IdleTrack ==
    [pc |-> "idle", tries |-> 0, attempts |-> 0, err |-> FALSE, result |-> "none",
     file |-> "absent", waits |-> <<>>, retryEv |-> 0, errEv |-> 0,
     artwork |-> FALSE, tagged |-> "none"]

Init ==
    /\ settings \in Settings
    /\ albums \in AlbumLists
    /\ Scenario(settings, albums)
    /\ downloadedFiles = 0
    /\ receivedBytes = 0
    /\ ctxCancelled = FALSE
    /\ sdPc = "idle"
    /\ sdNext = 1
    /\ groupErr = "nil"
    /\ sdResult = "none"
    /\ album = [a \in AlbumIds |-> IdleAlbum]
    /\ track = [t \in TrackIds |-> IdleTrack]
    /\ lastStat = NoStat
    /\ cancelledMidRun = FALSE
    /\ lateAlbumStart = FALSE
    /\ lateTrackStart = FALSE
    /\ totalFiles = CountFiles(albums)
    /\ totalBytes = 0
    /\ initPc = "returned"
    /\ initCalls = 1
    /\ inputURLs = <<>>
    /\ initIdx = 1
    /\ allAlbumURLs = <<>>
    /\ fetched = <<>>
    /\ initEvents = <<>>
    /\ initResult = "nil"
    /\ albumsBefore = <<>>
    /\ NoCall
    /\ NewModel
    /\ NoRelease

\* ------------------------------------------------------------ actions

LocalSizes == {94, 95, 105, 106, 110}
RemoteSizes == {0, 100}

\* The caller invokes StartDownloads.
StartDownloads ==
    /\ sdPc = "idle"
    /\ initPc \in {"idle", "returned"}
    /\ sdPc' = IF Len(albums) = 0 THEN "wait" ELSE "spawn"
    /\ UNCHANGED outsideVars
    /\ UNCHANGED initVars
    /\ UNCHANGED <<settings, albums, downloadedFiles, ctxCancelled, sdNext, groupErr,
                   sdResult, album, track, cancelledMidRun, lateAlbumStart,
                   lateTrackStart>>
    /\ lastStat' = NoStat

\* StartDownloads' loop: g.Go(downloadAlbum) for the next album.
GoAlbum ==
    /\ sdPc = "spawn"
    /\ GoAllowed(settings.MaxConcurrentAlbumsDownload, RunningAlbums)
    /\ album' = [album EXCEPT ![sdNext].pc = "mkdir"]
    /\ sdNext' = sdNext + 1
    /\ sdPc' = IF sdNext = Len(albums) THEN "wait" ELSE "spawn"
    /\ lateAlbumStart' = (lateAlbumStart \/ ctxCancelled)
    /\ UNCHANGED outsideVars
    /\ UNCHANGED initVars
    /\ UNCHANGED <<settings, albums, downloadedFiles, ctxCancelled, groupErr, sdResult,
                   track, cancelledMidRun, lateTrackStart>>
    /\ lastStat' = NoStat

\* downloadAlbum: os.MkdirAll, then the first artwork attempt when artwork is
\* wanted and available.
AlbumMkdir(a) ==
    /\ album[a].pc = "mkdir"
    /\ \E ok \in BOOLEAN :
         IF ok
         THEN LET new == IF WantsArtwork(settings, albums[a])
                         THEN ArtLoopHead(album[a], a, GroupCtxDone)
                         ELSE TracksPhase(album[a], a)
              IN  /\ album' = [album EXCEPT ![a] = new]
                  /\ downloadedFiles' = downloadedFiles + ArtCounted(album[a], new)
                  /\ UNCHANGED groupErr
         ELSE /\ album' = [album EXCEPT ![a].pc = "done", ![a].mkdirErrEv = @ + 1]
              /\ groupErr' = IF groupErr = "nil" THEN "mkdir" ELSE groupErr
              /\ UNCHANGED downloadedFiles
    /\ UNCHANGED outsideVars
    /\ UNCHANGED initVars
    /\ UNCHANGED <<settings, albums, ctxCancelled, sdPc, sdNext, sdResult, track, cancelledMidRun, lateAlbumStart, lateTrackStart>>
    /\ lastStat' = NoStat

\* downloadArtwork: a DownloadBytes call returns.
ArtworkAttemptEnd(a) ==
    /\ album[a].pc = "artwork"
    /\ \E ok \in BOOLEAN :
         LET new == IF ok
                    THEN ArtLoopExit([album[a] EXCEPT !.err = FALSE, !.artwork = TRUE], a)
                    ELSE ArtAttemptFailed(album[a])
         IN  /\ album' = [album EXCEPT ![a] = new]
             /\ downloadedFiles' = downloadedFiles + ArtCounted(album[a], new)
    /\ UNCHANGED outsideVars
    /\ UNCHANGED initVars
    /\ UNCHANGED <<settings, albums, ctxCancelled, sdPc, sdNext, groupErr, sdResult, track,
                   cancelledMidRun, lateAlbumStart, lateTrackStart>>
    /\ lastStat' = NoStat

\* downloadArtwork: waitForRetry returns (timer or ctx.Done), tries++.
ArtworkWaitEnd(a) ==
    /\ album[a].pc = "artBackoff"
    /\ LET new == ArtLoopHead([album[a] EXCEPT !.tries = @ + 1], a, GroupCtxDone)
       IN  /\ album' = [album EXCEPT ![a] = new]
           /\ downloadedFiles' = downloadedFiles + ArtCounted(album[a], new)
    /\ UNCHANGED outsideVars
    /\ UNCHANGED initVars
    /\ UNCHANGED <<settings, albums, ctxCancelled, sdPc, sdNext, groupErr, sdResult, track,
                   cancelledMidRun, lateAlbumStart, lateTrackStart>>
    /\ lastStat' = NoStat

\* downloadAlbum's loop: g.Go(downloadTrack) for the next track.
GoTrack(a) ==
    /\ album[a].pc = "spawn"
    /\ GoAllowed(settings.MaxConcurrentTracksDownload, RunningTracks(a))
    /\ track' = [track EXCEPT ![<<a, album[a].next>>].pc = "stat",
                              ![<<a, album[a].next>>].artwork = album[a].artwork]
    /\ album' = [album EXCEPT ![a].next = @ + 1,
                              ![a].pc = IF album[a].next = albums[a].tracks
                                        THEN "wait" ELSE "spawn"]
    /\ lateTrackStart' = (lateTrackStart \/ ctxCancelled)
    /\ UNCHANGED outsideVars
    /\ UNCHANGED initVars
    /\ UNCHANGED <<settings, albums, downloadedFiles, ctxCancelled, sdPc, sdNext, groupErr,
                   sdResult, cancelledMidRun, lateAlbumStart>>
    /\ lastStat' = NoStat

\* The effect of one step of a track task on the track, the counter and the
\* album's successCount.
ApplyTrack(t, new) ==
    /\ track' = [track EXCEPT ![t] = new]
    /\ downloadedFiles' = downloadedFiles + Counted(track[t], new)
    /\ album' = [album EXCEPT ![t[1]] = TaskEnded(@, track[t], new)]

\* downloadTrack: os.Stat, the size probe, the skip decision, and the first
\* DownloadFile call when the track is not skipped.
TrackStat(t) ==
    /\ track[t].pc = "stat"
    /\ \E exists \in BOOLEAN, local \in LocalSizes \cup {0}, probeOk \in BOOLEAN,
          remote \in RemoteSizes :
         /\ exists <=> local # 0
         /\ probeOk => exists /\ ~AlbumCtxDone(t[1])
         /\ ~probeOk => remote = 0
         /\ lastStat' = [t |-> t, exists |-> exists, local |-> local,
                         probeOk |-> probeOk, remote |-> remote]
         /\ LET seen == [track[t] EXCEPT !.file = IF exists THEN "old" ELSE "absent"]
            IN  IF ShouldSkip(exists, local, probeOk, remote)
                THEN ApplyTrack(t, [seen EXCEPT !.pc = "done", !.result = "skipped"])
                ELSE ApplyTrack(t, TrackLoopHead(seen, AlbumCtxDone(t[1])))
    /\ UNCHANGED outsideVars
    /\ UNCHANGED initVars
    /\ UNCHANGED <<settings, albums, ctxCancelled, sdPc, sdNext, groupErr, sdResult,
                   cancelledMidRun, lateAlbumStart, lateTrackStart>>

\* downloadTrack: a DownloadFile call returns.
TrackAttemptEnd(t) ==
    /\ track[t].pc = "inflight"
    /\ \E outcome \in {"ok", "fail", "partial"} :
         IF outcome = "ok"
         THEN ApplyTrack(t, TrackLoopExit([track[t] EXCEPT !.err = FALSE, !.file = "full"]))
         ELSE ApplyTrack(t, TrackAttemptFailed(track[t], outcome = "partial"))
    /\ UNCHANGED outsideVars
    /\ UNCHANGED initVars
    /\ UNCHANGED <<settings, albums, ctxCancelled, sdPc, sdNext, groupErr, sdResult, cancelledMidRun, lateAlbumStart, lateTrackStart>>
    /\ lastStat' = NoStat

\* downloadTrack: waitForRetry returns (timer or ctx.Done), tries++.
TrackWaitEnd(t) ==
    /\ track[t].pc = "backoff"
    /\ ApplyTrack(t, TrackLoopHead([track[t] EXCEPT !.tries = @ + 1], AlbumCtxDone(t[1])))
    /\ UNCHANGED outsideVars
    /\ UNCHANGED initVars
    /\ UNCHANGED <<settings, albums, ctxCancelled, sdPc, sdNext, groupErr, sdResult, cancelledMidRun, lateAlbumStart, lateTrackStart>>
    /\ lastStat' = NoStat

\* The report downloadAlbum makes after its tracks.
AlbumReportAnySuccess(al, a) == IF al.successCount > 0 THEN "success" ELSE "warning"

AlbumReport(al, a) == IF al.successCount = albums[a].tracks THEN "success" ELSE "warning"

\* downloadAlbum: g.Wait() returns, then the final report. (The optional
\* playlist write in between touches only the playlist file and its own
\* events, which nothing below reads.)
AlbumWait(a) ==
    /\ album[a].pc = "wait"
    /\ \A t \in TracksOf(a) : track[t].pc = "done"
    /\ IF album[a].innerErr # "nil"
       THEN /\ album' = [album EXCEPT ![a].pc = "done"]
            /\ groupErr' = IF groupErr = "nil" THEN album[a].innerErr ELSE groupErr
       ELSE /\ album' = [album EXCEPT ![a].pc = "done",
                                      ![a].report = AlbumReport(album[a], a)]
            /\ UNCHANGED groupErr
    /\ UNCHANGED outsideVars
    /\ UNCHANGED initVars
    /\ UNCHANGED <<settings, albums, downloadedFiles, ctxCancelled, sdPc, sdNext, sdResult,
                   track, cancelledMidRun, lateAlbumStart, lateTrackStart>>
    /\ lastStat' = NoStat

\* StartDownloads: g.Wait() returns the group's first error.
SdWait ==
    /\ sdPc = "wait"
    /\ \A a \in 1..Len(albums) : album[a].pc = "done"
    /\ sdPc' = "returned"
    /\ sdResult' = groupErr
    /\ UNCHANGED outsideVars
    /\ UNCHANGED initVars
    /\ UNCHANGED <<settings, albums, downloadedFiles, ctxCancelled, sdNext, groupErr, album,
                   track, cancelledMidRun, lateAlbumStart, lateTrackStart>>
    /\ lastStat' = NoStat

\* The user's signal: cancel() on the caller's context (main.go, tui.go).
Cancel ==
    /\ ~ctxCancelled
    /\ sdPc # "returned"
    /\ ctxCancelled' = TRUE
    /\ cancelledMidRun' = (/\ sdPc \in {"spawn", "wait"}
                           /\ \E a \in 1..Len(albums) : album[a].pc # "done")
    /\ UNCHANGED outsideVars
    /\ UNCHANGED initVars
    /\ UNCHANGED <<settings, albums, downloadedFiles, sdPc, sdNext, groupErr, sdResult,
                   album, track, lateAlbumStart, lateTrackStart>>
    /\ lastStat' = NoStat

Next ==
    \/ StartDownloads
    \/ GoAlbum
    \/ \E a \in AlbumIds : AlbumMkdir(a)
    \/ \E a \in AlbumIds : ArtworkAttemptEnd(a)
    \/ \E a \in AlbumIds : ArtworkWaitEnd(a)
    \/ \E a \in AlbumIds : GoTrack(a)
    \/ \E t \in TrackIds : TrackStat(t)
    \/ \E t \in TrackIds : TrackAttemptEnd(t)
    \/ \E t \in TrackIds : TrackWaitEnd(t)
    \/ \E a \in AlbumIds : AlbumWait(a)
    \/ SdWait
    \/ Cancel

Spec == Init /\ [][Next]_vars

\* ----------------------------------------------------- configurations
\*
\* Runs under the values a configuration file can hold: limits that are
\* negative, zero or positive, a retry budget of zero, and every combination
\* of the cover-art and tag settings.

MaxConfigRetries == 1   \* configured DownloadMaxRetries, from 0
MaxConfigAlbums == 1    \* albums in the release list

ConfigLimits == {-1, 0, 1, 2}

ConfigSettings ==
    [MaxConcurrentAlbumsDownload : ConfigLimits,
     MaxConcurrentTracksDownload : ConfigLimits,
     DownloadMaxRetries : 0..MaxConfigRetries,
     SaveCoverArtInTags : BOOLEAN,
     SaveCoverArtInFolder : BOOLEAN,
     ModifyTags : BOOLEAN,
     DownloadArtistDiscography : {FALSE}]

ConfigAlbumLists == {list \in AlbumLists : Len(list) <= MaxConfigAlbums}

\* A Manager whose Initialize returned, under any configuration.
InitConfig ==
    /\ settings \in ConfigSettings
    /\ albums \in ConfigAlbumLists
    /\ downloadedFiles = 0
    /\ receivedBytes = 0
    /\ ctxCancelled = FALSE
    /\ sdPc = "idle"
    /\ sdNext = 1
    /\ groupErr = "nil"
    /\ sdResult = "none"
    /\ album = [a \in AlbumIds |-> IdleAlbum]
    /\ track = [t \in TrackIds |-> IdleTrack]
    /\ lastStat = NoStat
    /\ cancelledMidRun = FALSE
    /\ lateAlbumStart = FALSE
    /\ lateTrackStart = FALSE
    /\ totalFiles = CountFiles(albums)
    /\ totalBytes = 0
    /\ initPc = "returned"
    /\ initCalls = 1
    /\ inputURLs = <<>>
    /\ initIdx = 1
    /\ allAlbumURLs = <<>>
    /\ fetched = <<>>
    /\ initEvents = <<>>
    /\ initResult = "nil"
    /\ albumsBefore = <<>>
    /\ NoCall
    /\ NewModel
    /\ NoRelease

SpecConfig == InitConfig /\ [][Next]_vars

\* The steps of StartDownloads and of the tasks it started.
Run ==
    \/ GoAlbum
    \/ \E a \in AlbumIds : AlbumMkdir(a)
    \/ \E a \in AlbumIds : ArtworkAttemptEnd(a)
    \/ \E a \in AlbumIds : ArtworkWaitEnd(a)
    \/ \E a \in AlbumIds : GoTrack(a)
    \/ \E t \in TrackIds : TrackStat(t)
    \/ \E t \in TrackIds : TrackAttemptEnd(t)
    \/ \E t \in TrackIds : TrackWaitEnd(t)
    \/ \E a \in AlbumIds : AlbumWait(a)
    \/ SdWait

\* The Go scheduler runs every goroutine that can take a step, every system
\* call and transfer returns, and every timer fires.
SpecConfigFair == SpecConfig /\ WF_vars(Run)

\* ---------------------------------------------------------- Initialize

MaxInputLines == 2   \* lines of the inputURLs argument
MaxInitCalls == 1    \* Initialize calls on one Manager
ProbedSize == 100    \* Content-Length a successful size probe reports

\* Input lines: two album URLs, an artist root URL, an http line url.Parse
\* rejects, and a line that is not an http(s) URL.
LeafURLs == {"u1", "u2"}
InputLines == LeafURLs \cup {"root", "bad", "text"}

\* What the /music listing of the root resolves to when it resolves.
Listings == {<<"u1">>, <<"u1", "u2">>, <<"u2", "u1">>}

\* Text is a sequence of lexemes. In a page: "h" an ordinary character,
\* "N" a newline, "M" the attribute name with its equals sign data-tralbum= ,
\* "q" a quote, "{" and "}" braces, "Q" the entity &quot; , and "eU", "eP",
\* "eT" the escaped forms of "U", "P" and "T". In a blob: "U" the text
\* url: " , "P" the connective " + " , "T" the text ", , and one lexeme per
\* member of the JSON object: "a" art_id, "t1".."t3" a trackinfo record with
\* a file, "n1", "n2" a trackinfo record whose file is null, "cur" a current
\* object without dates, and for the three dates album_release_date ("R"),
\* current.release_date ("C") and current.publish_date ("B") a lexeme per
\* value: null ("R0"), the empty string ("Re"), a date ("R1", "C2", "B3") and
\* a string no layout parses ("Rx").
TrackLexemes == {"t1", "t2", "t3", "n1", "n2"}
TopDateLexemes == {"R0", "Re", "R1", "Rx"}
DeclaredDateLexemes == {"C0", "Ce", "C2", "Cx"}
PublishDateLexemes == {"B0", "Be", "B3", "Bx"}
DateLexemes == TopDateLexemes \cup DeclaredDateLexemes \cup PublishDateLexemes
MemberLexemes == {"a", "cur"} \cup TrackLexemes \cup DateLexemes

\* The pages GetString can deliver to Initialize.
Pages ==
    {<<"h", "M", "q", "{", "a", "t1", "n1", "t2", "}", "q", "h">>,
     <<"M", "q", "{", "t1", "}", "q">>,
     <<"h", "}", "q", "h">>,
     <<"h", "M", "q", "{", "t1", "h">>,
     <<"M", "q", "{", "t1", "h", "}", "q">>,
     <<"M", "q", "{", "eU", "h", "eP", "h", "eT", "t1", "}", "q", "}", "q">>}

\* The smallest member of a non-empty set of positions, 0 for the empty set
\* (strings.Index gives -1 there).
LastOf(positions) ==
    IF positions = {} THEN 0
    ELSE CHOOSE i \in positions : \A j \in positions : j <= i

FirstOf(positions) ==
    IF positions = {} THEN 0
    ELSE CHOOSE i \in positions : \A j \in positions : i <= j

\* A lexeme whose first character is a quote.
StartsWithQuote(l) == l \in {"q", "P", "T"}

\* html.UnescapeString, lexeme by lexeme.
UnescapeString(text) ==
    [i \in 1..Len(text) |->
        CASE text[i] = "Q" -> "q"
          [] text[i] = "eU" -> "U"
          [] text[i] = "eP" -> "P"
          [] text[i] = "eT" -> "T"
          [] OTHER -> text[i]]

\* extractAlbumData: startString is data-tralbum="{ and stopString is }" ;
\* the blob runs from the opening brace through the brace of the first
\* stopString at or after it.
extractAlbumData(htmlContent) ==
    LET n == Len(htmlContent)
        startIndex ==
            FirstOf({i \in 1..(n - 2) :
                /\ htmlContent[i] = "M"
                /\ htmlContent[i + 1] = "q"
                /\ htmlContent[i + 2] = "{"})
        brace == startIndex + 2
        endIndex ==
            FirstOf({j \in brace..(n - 1) :
                htmlContent[j] = "}" /\ StartsWithQuote(htmlContent[j + 1])})
    IN  IF startIndex = 0 THEN [err |-> "NotFound", data |-> <<>>]
        ELSE IF endIndex = 0 THEN [err |-> "NoEnd", data |-> <<>>]
        ELSE [err |-> "nil", data |-> UnescapeString(SubSeq(htmlContent, brace, endIndex))]

\* One match of the pattern (url: ".+)" \+ "(.+",) that starts at s: the
\* positions of the connective and of the closing ", . The dot matches no
\* newline, both .+ are greedy, the first one first.
FixMatch(text, s) ==
    LET stops(p) == {t \in (p + 2)..Len(text) :
                        /\ text[t] = "T"
                        /\ \A k \in (s + 1)..(t - 1) : text[k] # "N"}
        joins == {p \in (s + 2)..Len(text) : text[p] = "P" /\ stops(p) # {}}
        p == CHOOSE x \in joins : \A y \in joins : y <= x
        t == CHOOSE x \in stops(p) : \A y \in stops(p) : y <= x
    IN  IF s > Len(text) \/ text[s] # "U" \/ joins = {}
        THEN [found |-> FALSE, p |-> 0, t |-> 0]
        ELSE [found |-> TRUE, p |-> p, t |-> t]

\* ReplaceAllString with ${1}${2}: the leftmost match from position from is
\* replaced, then the search goes on after it.
RECURSIVE FixFrom(_, _)
FixFrom(text, from) ==
    LET s == FirstOf({i \in from..Len(text) : FixMatch(text, i).found})
        m == FixMatch(text, s)
    IN  IF s = 0 THEN SubSeq(text, from, Len(text))
        ELSE SubSeq(text, from, m.p - 1) \o SubSeq(text, m.p + 1, m.t)
             \o FixFrom(text, m.t + 1)

fixJSON(albumData) == FixFrom(albumData, 1)

\* A nil *BandcampTime.
NilTime == [isNil |-> TRUE, Time |-> 0]

\* BandcampTime.UnmarshalJSON on the value of a date member: the empty string
\* gives the zero time, a string one of the four layouts parses gives its
\* time. A JSON null leaves the pointer nil.
UnmarshalJSON(l) ==
    CASE l \in {"Re", "Ce", "Be"} -> [isNil |-> FALSE, Time |-> 0]
      [] l = "R1" -> [isNil |-> FALSE, Time |-> 1]
      [] l = "C2" -> [isNil |-> FALSE, Time |-> 2]
      [] l = "B3" -> [isNil |-> FALSE, Time |-> 3]
      [] OTHER -> NilTime

\* The value json.Unmarshal leaves in a date field: that of the member's
\* last occurrence, nil when the member is absent.
DateField(albumData, lexemes) ==
    LET at == {i \in 1..Len(albumData) : albumData[i] \in lexemes}
    IN  IF at = {} THEN NilTime
        ELSE UnmarshalJSON(albumData[CHOOSE i \in at : \A j \in at : j <= i])

\* json.Unmarshal into JSONAlbum succeeds on an object of well-formed members
\* whose dates UnmarshalJSON accepts.
UnmarshalOk(albumData) ==
    /\ Len(albumData) >= 2
    /\ albumData[1] = "{"
    /\ albumData[Len(albumData)] = "}"
    /\ \A i \in 2..(Len(albumData) - 1) :
         /\ albumData[i] \in MemberLexemes \cup {"N"}
         /\ albumData[i] \notin {"Rx", "Cx", "Bx"}

\* The JSONAlbum json.Unmarshal fills in.
Unmarshal(albumData) ==
    LET records == SelectSeq(albumData, LAMBDA l : l \in TrackLexemes)
    IN  [ArtID |-> \E i \in 1..Len(albumData) : albumData[i] = "a",
         ReleaseDate |-> DateField(albumData, TopDateLexemes),
         AlbumData |->
            [isNil |-> \A i \in 1..Len(albumData) :
                          albumData[i] \notin DeclaredDateLexemes
                              \cup PublishDateLexemes \cup {"cur"},
             ReleaseDate |-> DateField(albumData, DeclaredDateLexemes),
             PublishDate |-> DateField(albumData, PublishDateLexemes)],
         Tracks |-> <<>> \o [i \in 1..Len(records) |->
                                [Title |-> records[i],
                                 File |-> records[i] \in {"t1", "t2", "t3"}]]]

\* ToAlbum keeps a track record when its File is not nil.
HasFileAlways(jt) == TRUE

HasFile(jt) == jt.File

\* ToAlbum's release date with its fallbacks; 0 is the zero time.
ReleaseDateOf(ja) ==
    IF ~ja.ReleaseDate.isNil THEN ja.ReleaseDate.Time
    ELSE IF ~ja.AlbumData.isNil /\ ~ja.AlbumData.ReleaseDate.isNil
    THEN ja.AlbumData.ReleaseDate.Time
    ELSE IF ~ja.AlbumData.isNil /\ ~ja.AlbumData.PublishDate.isNil
    THEN ja.AlbumData.PublishDate.Time
    ELSE 0

\* JSONAlbum.ToAlbum: the artwork URL when art_id is present, the release
\* date, and the tracks that carry a file, in the order of the records.
ToAlbum(ja) ==
    LET kept == SelectSeq(ja.Tracks, HasFile)
    IN  [tracks |-> Len(kept),
         hasArtwork |-> ja.ArtID,
         Tracks |-> <<>> \o [i \in 1..Len(kept) |-> kept[i].Title],
         ReleaseDate |-> ReleaseDateOf(ja)]

NoAlbum == [tracks |-> 0, hasArtwork |-> FALSE, Tracks |-> <<>>, ReleaseDate |-> 0]

\* ParseAlbumPage: extractAlbumData, fixJSON, json.Unmarshal, ToAlbum. The
\* lyrics it then copies from the page change no field modelled here.
ParseAlbumPage(htmlContent) ==
    LET extracted == extractAlbumData(htmlContent)
        albumData == fixJSON(extracted.data)
    IN  IF extracted.err # "nil" THEN [err |-> extracted.err, album |-> NoAlbum]
        ELSE IF ~UnmarshalOk(albumData) THEN [err |-> "Decode", album |-> NoAlbum]
        ELSE [err |-> "nil", album |-> ToAlbum(Unmarshal(albumData))]

\* parseInputURLs keeps the lines that start with http:// or https://.
parseInputURLs(lines) == SelectSeq(lines, LAMBDA l : l # "text")

\* getAlbumURLs: what it can return for one input URL.
getAlbumURLs(inputURL) ==
    IF inputURL = "bad" THEN {[err |-> "url", urls |-> <<>>]}
    ELSE IF inputURL \in LeafURLs \/ ~settings.DownloadArtistDiscography
    THEN {[err |-> "nil", urls |-> <<inputURL>>]}
    ELSE {[err |-> "fetch", urls |-> <<>>]}
         \cup (IF ctxCancelled THEN {}
               ELSE {[err |-> "NoAlbumFound", urls |-> <<>>]}
                    \cup {[err |-> "nil", urls |-> l] : l \in Listings})

\* What GetString can give for an album URL: an error, or the page.
GetString ==
    {[err |-> TRUE, body |-> <<>>]}
    \cup (IF ctxCancelled THEN {} ELSE {[err |-> FALSE, body |-> p] : p \in Pages})

\* Initialize after the Error event of a failed URL: `continue`.
InitAfterErrorReturns(pc) == [pc |-> "returned", result |-> "err"]

InitAfterError(pc) == [pc |-> pc, result |-> "none"]

ResolvePc(idx, urls, all) ==
    IF idx <= Len(urls) THEN "resolve" ELSE IF all # <<>> THEN "fetch" ELSE "totals"

FetchPc(idx, all) == IF idx <= Len(all) THEN "fetch" ELSE "totals"

InitSettings ==
    [MaxConcurrentAlbumsDownload : {1},
     MaxConcurrentTracksDownload : {NumTracks},
     DownloadMaxRetries : {MaxRetries},
     SaveCoverArtInTags : {TRUE},
     SaveCoverArtInFolder : {FALSE},
     ModifyTags : {TRUE},
     DownloadArtistDiscography : BOOLEAN]

\* The state NewManager leaves.
NewManager ==
    /\ settings \in InitSettings
    /\ albums = <<>>
    /\ downloadedFiles = 0
    /\ receivedBytes = 0
    /\ ctxCancelled = FALSE
    /\ sdPc = "idle"
    /\ sdNext = 1
    /\ groupErr = "nil"
    /\ sdResult = "none"
    /\ album = [a \in AlbumIds |-> IdleAlbum]
    /\ track = [t \in TrackIds |-> IdleTrack]
    /\ lastStat = NoStat
    /\ cancelledMidRun = FALSE
    /\ lateAlbumStart = FALSE
    /\ lateTrackStart = FALSE
    /\ totalFiles = 0
    /\ totalBytes = 0
    /\ initPc = "idle"
    /\ initCalls = 0
    /\ inputURLs = <<>>
    /\ initIdx = 1
    /\ allAlbumURLs = <<>>
    /\ fetched = <<>>
    /\ initEvents = <<>>
    /\ initResult = "none"
    /\ albumsBefore = <<>>
    /\ NoCall
    /\ NewModel
    /\ NoRelease

\* The entry of Initialize with an input text of up to maxLines lines.
InitializeCall(maxLines) ==
    /\ initPc \in {"idle", "returned"}
    /\ sdPc = "idle"
    /\ \E n \in 0..maxLines : \E lines \in [1..n -> InputLines] :
         /\ inputURLs' = parseInputURLs(lines)
         /\ initPc' = ResolvePc(1, parseInputURLs(lines), <<>>)
    /\ initCalls' = initCalls + 1
    /\ initIdx' = 1
    /\ allAlbumURLs' = <<>>
    /\ fetched' = <<>>
    /\ initEvents' = <<>>
    /\ initResult' = "none"
    /\ albumsBefore' = albums
    /\ UNCHANGED <<settings, albums, ctxCancelled, totalFiles, totalBytes>>
    /\ UNCHANGED outsideVars
    /\ UNCHANGED downloadVars

\* The caller invokes Initialize with some input text.
Initialize ==
    /\ initCalls < MaxInitCalls
    /\ InitializeCall(MaxInputLines)

\* One pass of Initialize's first loop.
ResolveURL ==
    /\ initPc = "resolve"
    /\ \E out \in getAlbumURLs(inputURLs[initIdx]) :
         IF out.err # "nil"
         THEN LET after == InitAfterError(ResolvePc(initIdx + 1, inputURLs, allAlbumURLs))
              IN  /\ initEvents' = Append(initEvents,
                        [level |-> "error", step |-> "resolve", idx |-> initIdx])
                  /\ initPc' = after.pc
                  /\ initResult' = after.result
                  /\ initIdx' = IF after.pc = "resolve" THEN initIdx + 1 ELSE 1
                  /\ UNCHANGED allAlbumURLs
         ELSE /\ allAlbumURLs' = allAlbumURLs \o out.urls
              /\ initPc' = ResolvePc(initIdx + 1, inputURLs, allAlbumURLs \o out.urls)
              /\ initIdx' = IF initIdx + 1 <= Len(inputURLs) THEN initIdx + 1 ELSE 1
              /\ UNCHANGED <<initEvents, initResult>>
    /\ UNCHANGED <<settings, albums, ctxCancelled, totalFiles, totalBytes, initCalls,
                   inputURLs, fetched, albumsBefore>>
    /\ UNCHANGED outsideVars
    /\ UNCHANGED downloadVars

\* One pass of Initialize's second loop: GetString, then ParseAlbumPage.
FetchAlbum ==
    /\ initPc = "fetch"
    /\ \E html \in GetString :
         LET parsed == IF html.err THEN [err |-> "fetch", album |-> NoAlbum]
                       ELSE ParseAlbumPage(html.body)
             after == InitAfterError(FetchPc(initIdx + 1, allAlbumURLs))
         IN  /\ fetched' = Append(fetched, html)
             /\ IF parsed.err # "nil"
                THEN /\ initEvents' = Append(initEvents,
                           [level |-> "error",
                            step |-> IF html.err THEN "fetch" ELSE "parse",
                            idx |-> initIdx])
                     /\ initPc' = after.pc
                     /\ initResult' = after.result
                     /\ UNCHANGED albums
                ELSE /\ albums' = Append(albums, parsed.album)
                     /\ initEvents' = Append(initEvents,
                           [level |-> "info", step |-> "found", idx |-> initIdx])
                     /\ initPc' = FetchPc(initIdx + 1, allAlbumURLs)
                     /\ UNCHANGED initResult
    /\ initIdx' = initIdx + 1
    /\ UNCHANGED <<settings, ctxCancelled, totalFiles, totalBytes, initCalls, inputURLs,
                   allAlbumURLs, albumsBefore>>
    /\ UNCHANGED outsideVars
    /\ UNCHANGED downloadVars

\* calculateTotals over Manager.albums, then Initialize returns nil. Each
\* asset is counted; each probe that succeeds adds its size.
CalculateTotals ==
    /\ initPc = "totals"
    /\ totalFiles' = totalFiles + CountFiles(albums)
    /\ \E okProbes \in 0..(IF ctxCancelled THEN 0 ELSE CountFiles(albums)) :
         totalBytes' = totalBytes + okProbes * ProbedSize
    /\ initPc' = "returned"
    /\ initResult' = "nil"
    /\ UNCHANGED <<settings, albums, ctxCancelled, initCalls, inputURLs, initIdx,
                   allAlbumURLs, fetched, initEvents, albumsBefore>>
    /\ UNCHANGED outsideVars
    /\ UNCHANGED downloadVars

NextInit ==
    \/ Initialize
    \/ ResolveURL
    \/ FetchAlbum
    \/ CalculateTotals
    \/ Cancel

SpecInit == NewManager /\ [][NextInit]_vars

\* Initialize called again on the same Manager, after an earlier call
\* returned.
MaxRepeatCalls == 1   \* further Initialize calls on one Manager
MaxRepeatLines == 1   \* lines of the inputURLs argument of a further call

InitializeAgain ==
    /\ initCalls >= MaxInitCalls
    /\ initCalls < MaxInitCalls + MaxRepeatCalls
    /\ InitializeCall(MaxRepeatLines)

NextReinit ==
    \/ Initialize
    \/ InitializeAgain
    \/ ResolveURL
    \/ FetchAlbum
    \/ CalculateTotals
    \/ Cancel

SpecReinit == NewManager /\ [][NextReinit]_vars

\* -------------------------------------------------------------- Parser

MaxHtmlLen == 7        \* lexemes of a page handed to extractAlbumData
MaxTextLen == 8        \* lexemes of a text handed to fixJSON
MaxTrackRecords == 3   \* trackinfo records of a release page

\* Everything a Manager holds: the functions called on their own leave it.
managerVars == <<settings, albums, ctxCancelled, downloadVars, initVars, receivedBytes>>

\* No Manager is at work.
NoManager == NewManager /\ ~settings.DownloadArtistDiscography

\* All sequences over lexemes of at most n lexemes.
TextsOver(lexemes, n) == UNION {[1..k -> lexemes] : k \in 0..n}

\* Nothing, or one lexeme of the set.
Optional(lexemes) == {<<>>} \cup {<<l>> : l \in lexemes}

\* Release pages: a blob with or without art_id, each date absent or with
\* one of its values, a current object, and up to MaxTrackRecords records.
ReleasePages ==
    {<<"M", "q", "{">> \o art \o top \o cur \o declared \o publish \o records
        \o <<"}", "q">> :
        art \in Optional({"a"}),
        top \in Optional(TopDateLexemes),
        cur \in Optional({"cur"}),
        declared \in Optional(DeclaredDateLexemes),
        publish \in Optional(PublishDateLexemes),
        records \in TextsOver(TrackLexemes, MaxTrackRecords)}

\* A behaviour makes one call: a result depends on the argument alone.
CallExtractAlbumData ==
    /\ callFn = "none"
    /\ \E html \in TextsOver({"M", "q", "{", "}", "Q"}, MaxHtmlLen) :
         /\ callArg' = html
         /\ callRes' = extractAlbumData(html)
    /\ callFn' = "extractAlbumData"
    /\ UNCHANGED <<managerVars, tuiVars, releaseVars>>

CallFixJSON ==
    /\ callFn = "none"
    /\ \E text \in TextsOver({"U", "P", "T", "h", "N"}, MaxTextLen) :
         /\ callArg' = text
         /\ callRes' = fixJSON(text)
    /\ callFn' = "fixJSON"
    /\ UNCHANGED <<managerVars, tuiVars, releaseVars>>

CallParseAlbumPage ==
    /\ callFn = "none"
    /\ \E html \in ReleasePages :
         /\ callArg' = html
         /\ callRes' = ParseAlbumPage(html)
    /\ callFn' = "ParseAlbumPage"
    /\ UNCHANGED <<managerVars, tuiVars, releaseVars>>

NextParser ==
    \/ CallExtractAlbumData
    \/ CallFixJSON
    \/ CallParseAlbumPage

SpecParser == NoManager /\ [][NextParser]_vars

\* --------------------------------------------------------- Discography

MaxListingLen == 4   \* lexemes of a listing page

\* A listing page is a sequence of lexemes: "h" other markup, "D" the text
\* div id="discography" , and links: "A1", "A2" anchors href="/album/1" and
\* href="/album/2" , "K1" an anchor href="/track/1" , and "Q1" the text
\* /album/1&quot; outside an href.
ListingLexemes == {"h", "D", "A1", "A2", "K1", "Q1"}

\* The url group of a link.
URLOf(l) ==
    CASE l \in {"A1", "Q1"} -> "/album/1"
      [] l = "A2" -> "/album/2"
      [] l = "K1" -> "/track/1"
      [] OTHER -> ""

\* The lexemes (?P<url>/(album|track)/.+?)("|&quot;) matches.
MatchesLink(l) == l \in {"A1", "A2", "K1", "Q1"}

\* The lexemes href="(?P<url>/album/.+?)" matches.
MatchesAlbumAnchor(l) == l \in {"A1", "A2"}

\* The keys of urlSet: the url groups of the matches.
URLSet(html, matching) ==
    {URLOf(html[i]) : i \in {j \in 1..Len(html) : html[j] \in matching}}

\* ranging over a map visits its keys in an order the runtime chooses.
RangeOrders(urlSet) ==
    {order \in [1..Cardinality(urlSet) -> urlSet] :
        \A i, j \in 1..Cardinality(urlSet) : i # j => order[i] # order[j]}

isSingleAlbumArtist(html) == \E i \in 1..Len(html) : html[i] = "D"

getSingleAlbumURL(html) ==
    LET urlSet == URLSet(html, {l \in ListingLexemes : MatchesAlbumAnchor(l)})
    IN  CASE Cardinality(urlSet) = 0 -> [err |-> "ErrNoAlbumFound", urls |-> <<>>]
          [] Cardinality(urlSet) = 1 ->
                [err |-> "nil", urls |-> <<CHOOSE u \in urlSet : TRUE>>]
          [] OTHER -> [err |-> "multiple", urls |-> <<>>]

\* GetAlbumURLs: the results it can return for a page.
GetAlbumURLs(musicPageHTML) ==
    IF isSingleAlbumArtist(musicPageHTML) THEN {getSingleAlbumURL(musicPageHTML)}
    ELSE IF \A i \in 1..Len(musicPageHTML) : ~MatchesLink(musicPageHTML[i])
    THEN {[err |-> "ErrNoAlbumFound", urls |-> <<>>]}
    ELSE {[err |-> "nil", urls |-> <<>> \o order] :
             order \in RangeOrders(URLSet(musicPageHTML, {l \in ListingLexemes : MatchesLink(l)}))}

CallGetAlbumURLs ==
    /\ callFn = "none"
    /\ \E html \in TextsOver(ListingLexemes, MaxListingLen) :
         /\ callArg' = html
         /\ \E result \in GetAlbumURLs(html) : callRes' = result
    /\ callFn' = "GetAlbumURLs"
    /\ UNCHANGED <<managerVars, tuiVars, releaseVars>>

NextDiscography == CallGetAlbumURLs

SpecDiscography == NoManager /\ [][NextDiscography]_vars

\* -------------------------------------------------------------- Naming
\*
\* Names and paths are sequences of characters; a naming template also
\* holds placeholders, each one lexeme ("{artist}", "{album}", ...).

MaxNameLen == 4   \* characters of a name given to sanitizeFileName alone

\* The characters [<>:"/\\|?*\x00-\x1f] ; of the control characters the
\* tab and the line feed stand for the range.
InvalidChars == {"<", ">", ":", "\"", "/", "\\", "|", "?", "*", "\t", "\n"}

\* The characters \s matches.
WhitespaceChars == {"\t", "\n", "\f", "\r", " "}

ReplaceInvalid(name) ==
    <<>> \o [i \in 1..Len(name) |-> IF name[i] \in InvalidChars THEN "_" ELSE name[i]]

\* strings.TrimRight, and the replacement of \.+$ by nothing when the cutset
\* is the dot.
TrimRight(name, cutset) ==
    LET kept == {i \in 1..Len(name) : name[i] \notin cutset}
    IN  IF kept = {} THEN <<>>
        ELSE SubSeq(name, 1, CHOOSE i \in kept : \A j \in kept : j <= i)

\* The characters of a text at the given positions, in their order.
Keep(text, positions) ==
    LET indexed == [i \in 1..Len(text) |-> <<i, text[i]>>]
        kept == SelectSeq(indexed, LAMBDA p : p[1] \in positions)
    IN  <<>> \o [i \in 1..Len(kept) |-> kept[i][2]]

\* The replacement of every \s+ by one space: of a run of whitespace
\* characters the first stays, as a space.
CollapseWhitespace(name) ==
    LET kept == Keep(name, {i \in 1..Len(name) :
                               name[i] \in WhitespaceChars =>
                                   (i = 1 \/ name[i - 1] \notin WhitespaceChars)})
    IN  <<>> \o [i \in 1..Len(kept) |-> IF kept[i] \in WhitespaceChars THEN " " ELSE kept[i]]

sanitizeFileName(name) ==
    TrimRight(CollapseWhitespace(TrimRight(ReplaceInvalid(name), {"."})), {" "})

\* Path length limits.
MaxFolderPathLen == 248
MaxFilePathLen == 260
ShortNameLen == 11

Digits == <<"0", "1", "2", "3", "4", "5", "6", "7", "8", "9">>

\* fmt.Sprintf("%02d", n) and the two-digit layouts "01" and "02".
Pad2(n) == <<Digits[((n \div 10) % 10) + 1], Digits[(n % 10) + 1]>>

\* ReleaseDate.Format(layout) for the layouts "2006", "01" and "02".
Format(date, layout) ==
    CASE layout = "2006" -> Pad2(date.year \div 100) \o Pad2(date.year % 100)
      [] layout = "01" -> Pad2(date.month)
      [] layout = "02" -> Pad2(date.day)

\* strings.ReplaceAll for a placeholder.
RECURSIVE ReplaceAll(_, _, _)
ReplaceAll(s, old, new) ==
    IF s = <<>> THEN <<>>
    ELSE IF Len(s) = 1 THEN (IF s[1] = old THEN new ELSE s)
    ELSE ReplaceAll(SubSeq(s, 1, Len(s) \div 2), old, new)
            \o ReplaceAll(SubSeq(s, (Len(s) \div 2) + 1, Len(s)), old, new)

\* filepath.Clean for a path without . and .. elements: separators are not
\* repeated and the path does not end with one.
Clean(path) ==
    LET single == Keep(path, {i \in 1..Len(path) :
                                 path[i] = "/" => (i = 1 \/ path[i - 1] # "/")})
    IN  IF Len(single) > 1 /\ single[Len(single)] = "/"
        THEN SubSeq(single, 1, Len(single) - 1)
        ELSE single

\* filepath.Join(dir, name): empty elements are ignored.
Join(dir, name) ==
    IF name = <<>> THEN Clean(dir)
    ELSE IF dir = <<>> THEN Clean(name)
    ELSE Clean(dir \o <<"/">> \o name)

\* filepath.Ext: the suffix from the last dot of the last element.
Ext(path) ==
    LET dots == {i \in 1..Len(path) :
                    /\ path[i] = "."
                    /\ \A j \in i..Len(path) : path[j] # "/"}
    IN  IF dots = {} THEN <<>>
        ELSE SubSeq(path, CHOOSE i \in dots : \A j \in dots : j <= i, Len(path))

Extension(pf) ==
    CASE pf = "M3U" -> <<".", "m", "3", "u">>
      [] pf = "PLS" -> <<".", "p", "l", "s">>
      [] pf = "WPL" -> <<".", "w", "p", "l">>
      [] pf = "ZPL" -> <<".", "z", "p", "l">>
      [] OTHER -> <<".", "m", "3", "u">>

parseFolderPath(a, cfg) ==
    LET p1 == ReplaceAll(cfg.DownloadsPath, "{year}", sanitizeFileName(Format(a.ReleaseDate, "2006")))
        p2 == ReplaceAll(p1, "{month}", sanitizeFileName(Format(a.ReleaseDate, "01")))
        p3 == ReplaceAll(p2, "{day}", sanitizeFileName(Format(a.ReleaseDate, "02")))
        p4 == ReplaceAll(p3, "{artist}", sanitizeFileName(a.Artist))
        path == ReplaceAll(p4, "{album}", sanitizeFileName(a.Title))
    IN  IF Len(path) >= MaxFolderPathLen THEN SubSeq(path, 1, MaxFolderPathLen - 1) ELSE path

\* parsePlaylistFileName and parseCoverArtFileName: the same substitutions
\* on the template of each.
parseAlbumFileName(a, format) ==
    LET f1 == ReplaceAll(format, "{year}", Format(a.ReleaseDate, "2006"))
        f2 == ReplaceAll(f1, "{month}", Format(a.ReleaseDate, "01"))
        f3 == ReplaceAll(f2, "{day}", Format(a.ReleaseDate, "02"))
        f4 == ReplaceAll(f3, "{album}", a.Title)
        f5 == ReplaceAll(f4, "{artist}", a.Artist)
    IN  sanitizeFileName(f5)

\* The shortening of a file path that parsePlaylistPath, parseArtworkPath and
\* Track.parseFilePath share: of the file name its first 11 - len(ext)
\* characters are kept.
LimitFilePath(dir, fileName, filePath, ext) ==
    LET maxLen == ShortNameLen - Len(ext)
    IN  IF Len(filePath) >= MaxFilePathLen /\ maxLen > 0 /\ maxLen < Len(fileName)
        THEN Join(dir, SubSeq(fileName, 1, maxLen) \o ext)
        ELSE filePath

parsePlaylistPath(a, cfg) ==
    LET fileName == parseAlbumFileName(a, cfg.PlaylistFileNameFormat)
        ext == Extension(cfg.PlaylistFormat)
    IN  LimitFilePath(a.Path, fileName, Join(a.Path, fileName \o ext), ext)

HasArtwork(a) == a.ArtworkURL # <<>>

parseArtworkPath(a, cfg) ==
    IF ~HasArtwork(a) THEN <<>>
    ELSE LET ext == Ext(a.ArtworkURL)
             fileName == parseAlbumFileName(a, cfg.CoverArtFileNameFormat)
         IN  LimitFilePath(a.Path, fileName, Join(a.Path, fileName \o ext), ext)

NewAlbum(artist, title, artworkURL, releaseDate, cfg) ==
    LET a0 == [Artist |-> artist, Title |-> title, ArtworkURL |-> artworkURL,
               ReleaseDate |-> releaseDate]
        a1 == [Artist |-> artist, Title |-> title, ArtworkURL |-> artworkURL,
               ReleaseDate |-> releaseDate, Path |-> parseFolderPath(a0, cfg)]
    IN  [Artist |-> artist, Title |-> title, ArtworkURL |-> artworkURL,
         ReleaseDate |-> releaseDate, Path |-> a1.Path,
         PlaylistPath |-> parsePlaylistPath(a1, cfg),
         ArtworkPath |-> parseArtworkPath(a1, cfg)]

parseFileName(t, cfg) ==
    LET f1 == ReplaceAll(cfg.FileNameFormat, "{year}", Format(t.Album.ReleaseDate, "2006"))
        f2 == ReplaceAll(f1, "{month}", Format(t.Album.ReleaseDate, "01"))
        f3 == ReplaceAll(f2, "{day}", Format(t.Album.ReleaseDate, "02"))
        f4 == ReplaceAll(f3, "{album}", t.Album.Title)
        f5 == ReplaceAll(f4, "{artist}", t.Album.Artist)
        f6 == ReplaceAll(f5, "{title}", t.Title)
        f7 == ReplaceAll(f6, "{tracknum}", Pad2(t.Number))
    IN  sanitizeFileName(f7)

parseFilePath(t, cfg) ==
    LET fileName == parseFileName(t, cfg)
        filePath == Join(t.Album.Path, fileName)
    IN  LimitFilePath(t.Album.Path, fileName, filePath, Ext(filePath))

NewTrack(a, number, title, cfg) ==
    LET t == [Album |-> a, Number |-> number, Title |-> title]
    IN  [Album |-> a, Number |-> number, Title |-> title, Path |-> parseFilePath(t, cfg)]

\* n times the character c.
Rep(c, n) == <<>> \o [i \in 1..n |-> c]

\* Inputs of NewAlbum and NewTrack: short names, names longer than the
\* limits, and names with a dot inside.
Artists == {<<"a">>, <<"a", ":", "b">>, Rep("a", 250)}
Titles == {<<"t">>, <<"t", ".", " ">>, Rep("t", 300), <<"n", "o", ".", " ">> \o Rep("t", 300)}
ArtworkURLs == {<<>>, <<"h", ":", "/", "/", "f", ".", "c", "/", "a", "1", "_", "0", ".", "j", "p", "g">>}
ReleaseDates == {[year |-> 1, month |-> 1, day |-> 1], [year |-> 2023, month |-> 5, day |-> 15]}
TrackNumbers == {1, 12}
DownloadsPaths ==
    {<<"/", "m", "/", "{artist}", "/", "{album}">>,
     <<"/", "m", "/", "{year}", "-", "{month}", "-", "{day}", " ", "{album}">>}
AlbumFileNameFormats == {<<"{album}">>, <<"{artist}", " ", "-", " ", "{album}">>}
FileNameFormats ==
    {<<"{tracknum}", " ", "{artist}", " ", "-", " ", "{title}", ".", "m", "p", "3">>,
     <<"{tracknum}", " ", "{title}", ".", "m", "p", "3">>,
     <<"{tracknum}", " ", "{title}">>}
PathConfigs ==
    [DownloadsPath : DownloadsPaths,
     CoverArtFileNameFormat : AlbumFileNameFormats,
     PlaylistFileNameFormat : AlbumFileNameFormats,
     PlaylistFormat : {"M3U", "ZPL"}]

NameChars == {"a", ".", " ", ":", "\t"}

CallSanitizeFileName ==
    /\ callFn = "none"
    /\ \E name \in TextsOver(NameChars, MaxNameLen) :
         /\ callArg' = name
         /\ callRes' = sanitizeFileName(name)
    /\ callFn' = "sanitizeFileName"
    /\ UNCHANGED <<managerVars, tuiVars, releaseVars>>

CallNewAlbum ==
    /\ callFn = "none"
    /\ \E artist \in Artists, title \in Titles, artworkURL \in ArtworkURLs,
          releaseDate \in ReleaseDates, cfg \in PathConfigs :
         /\ callArg' = [artist |-> artist, title |-> title, cfg |-> cfg]
         /\ callRes' = NewAlbum(artist, title, artworkURL, releaseDate, cfg)
    /\ callFn' = "NewAlbum"
    /\ UNCHANGED <<managerVars, tuiVars, releaseVars>>

CallNewTrack ==
    /\ callFn = "none"
    /\ \E artist \in Artists, albumTitle \in Titles, releaseDate \in ReleaseDates,
          downloadsPath \in DownloadsPaths, number \in TrackNumbers, title \in Titles,
          format \in FileNameFormats :
         LET cfg == [DownloadsPath |-> downloadsPath,
                     CoverArtFileNameFormat |-> <<"{album}">>,
                     PlaylistFileNameFormat |-> <<"{album}">>,
                     PlaylistFormat |-> "M3U"]
             a == NewAlbum(artist, albumTitle, <<>>, releaseDate, cfg)
         IN  /\ callArg' = [number |-> number, title |-> title, format |-> format]
             /\ callRes' = NewTrack(a, number, title, [FileNameFormat |-> format])
    /\ callFn' = "NewTrack"
    /\ UNCHANGED <<managerVars, tuiVars, releaseVars>>

NextNaming == CallSanitizeFileName \/ CallNewAlbum \/ CallNewTrack

SpecNaming == NoManager /\ [][NextNaming]_vars

\* ------------------------------------------------------- Release object

MaxReleaseTracks == 2   \* tracks attached to the release

\* The releases and tracks the object is built from.
ReleaseArtists == {<<"a">>, <<"a", ":", "b">>}
ReleaseTitles == {<<"t">>, <<"t", ".", " ">>}
ReleasePathConfigs ==
    {cfg \in PathConfigs : /\ cfg.PlaylistFormat = "M3U"
                           /\ cfg.CoverArtFileNameFormat = cfg.PlaylistFileNameFormat}
ReleaseFileNameFormats ==
    {<<"{tracknum}", " ", "{title}", ".", "m", "p", "3">>, <<"{tracknum}", " ", "{title}">>}
LyricsTexts == {<<"l", "a">>}

\* ToAlbum: album.Tracks = append(album.Tracks, track), with the track as
\* NewTrack made it.
AttachTrack(al, tr) ==
    [al EXCEPT !.Tracks = Append(@, [Number |-> tr.Number, Title |-> tr.Title,
                                      Path |-> tr.Path, Lyrics |-> <<>>])]

\* extractLyrics: track.Lyrics = the text found for the track.
SetLyricsAndPath(tr, lyrics) == [tr EXCEPT !.Lyrics = lyrics, !.Path = lyrics]

SetLyrics(tr, lyrics) == [tr EXCEPT !.Lyrics = lyrics]

\* ToAlbum: model.NewAlbum.
ReleaseNew ==
    /\ relPc = "none"
    /\ \E artist \in ReleaseArtists, title \in ReleaseTitles, artworkURL \in ArtworkURLs,
          cfg \in ReleasePathConfigs :
         LET a == NewAlbum(artist, title, artworkURL, [year |-> 2023, month |-> 5, day |-> 15], cfg)
         IN  release' = [Artist |-> a.Artist, Title |-> a.Title, ArtworkURL |-> a.ArtworkURL,
                         ReleaseDate |-> a.ReleaseDate, Path |-> a.Path,
                         PlaylistPath |-> a.PlaylistPath, ArtworkPath |-> a.ArtworkPath,
                         Tracks |-> <<>>]
    /\ relPc' = "tracks"
    /\ UNCHANGED <<relIdx, disk>>
    /\ UNCHANGED <<managerVars, callVars, tuiVars>>

\* ToAlbum's loop: a record with a file becomes a track of the album.
ReleaseAttachTrack ==
    /\ relPc = "tracks"
    /\ Len(release.Tracks) < MaxReleaseTracks
    /\ \E title \in ReleaseTitles, format \in ReleaseFileNameFormats :
         release' = AttachTrack(release,
                                NewTrack(release, Len(release.Tracks) + 1, title,
                                         [FileNameFormat |-> format]))
    /\ UNCHANGED <<relPc, relIdx, disk>>
    /\ UNCHANGED <<managerVars, callVars, tuiVars>>

\* ToAlbum returns; ParseAlbumPage goes on to extractLyrics.
ReleaseAttached ==
    /\ relPc = "tracks"
    /\ relPc' = "lyrics"
    /\ relIdx' = 1
    /\ UNCHANGED <<release, disk>>
    /\ UNCHANGED <<managerVars, callVars, tuiVars>>

\* extractLyrics' loop: the lyrics of the next track, when the page has them;
\* after the last track ParseAlbumPage returns and Initialize keeps the album.
ReleaseLyrics ==
    /\ relPc = "lyrics"
    /\ IF relIdx > Len(release.Tracks)
       THEN /\ relPc' = "totals"
            /\ UNCHANGED <<release, relIdx>>
       ELSE /\ \E found \in BOOLEAN, lyrics \in LyricsTexts :
                 release' = IF found
                            THEN [release EXCEPT !.Tracks[relIdx] = SetLyrics(@, lyrics)]
                            ELSE release
            /\ relIdx' = relIdx + 1
            /\ UNCHANGED relPc
    /\ UNCHANGED disk
    /\ UNCHANGED <<managerVars, callVars, tuiVars>>

\* calculateTotals: the size probes of the tracks' and the artwork's URLs.
ReleaseTotals ==
    /\ relPc = "totals"
    /\ relPc' = "mkdir"
    /\ UNCHANGED <<release, relIdx, disk>>
    /\ UNCHANGED <<managerVars, callVars, tuiVars>>

\* downloadAlbum: os.MkdirAll(album.Path).
ReleaseMkdir ==
    /\ relPc = "mkdir"
    /\ \E ok \in BOOLEAN :
         IF ok
         THEN disk' = disk \cup {release.Path} /\ relPc' = "artwork"
         ELSE disk' = disk /\ relPc' = "done"
    /\ UNCHANGED <<release, relIdx>>
    /\ UNCHANGED <<managerVars, callVars, tuiVars>>

\* downloadArtwork: os.WriteFile(album.ArtworkPath) when the cover is kept
\* in the folder.
ReleaseArtwork ==
    /\ relPc = "artwork"
    /\ \E saved \in BOOLEAN :
         disk' = IF saved /\ HasArtwork(release) THEN disk \cup {release.ArtworkPath} ELSE disk
    /\ relPc' = "files"
    /\ UNCHANGED <<release, relIdx>>
    /\ UNCHANGED <<managerVars, callVars, tuiVars>>

\* downloadTrack: DownloadFile and SaveTags at track.Path.
ReleaseTrackFile ==
    /\ relPc = "files"
    /\ \E i \in 1..Len(release.Tracks) :
         /\ release.Tracks[i].Path \notin disk
         /\ disk' = disk \cup {release.Tracks[i].Path}
    /\ UNCHANGED <<release, relPc, relIdx>>
    /\ UNCHANGED <<managerVars, callVars, tuiVars>>

\* downloadAlbum after its tracks: os.WriteFile(album.PlaylistPath) when a
\* playlist is asked for, then the report.
ReleasePlaylist ==
    /\ relPc = "files"
    /\ \E wanted \in BOOLEAN :
         disk' = IF wanted THEN disk \cup {release.PlaylistPath} ELSE disk
    /\ relPc' = "done"
    /\ UNCHANGED <<release, relIdx>>
    /\ UNCHANGED <<managerVars, callVars, tuiVars>>

NextRelease ==
    \/ ReleaseNew
    \/ ReleaseAttachTrack
    \/ ReleaseAttached
    \/ ReleaseLyrics
    \/ ReleaseTotals
    \/ ReleaseMkdir
    \/ ReleaseArtwork
    \/ ReleaseTrackFile
    \/ ReleasePlaylist

SpecRelease == NoManager /\ [][NextRelease]_vars

\* ---------------------------------------------------------- HTTP client
\*
\* What the server answers to one request: the transport fails (doErr), or
\* a response arrives with a status, a Content-Length (-1 when the header is
\* absent) and a body of which reading may fail after a part (readErr).

StatusOK == 200

StatusCodes == {StatusOK, 206, 404, 500}
ContentLengths == {-1, 0, 2}
Bodies == {<<>>, <<"b1", "b2">>}
Responses ==
    [doErr : BOOLEAN, StatusCode : StatusCodes, ContentLength : ContentLengths,
     Body : Bodies, readErr : BOOLEAN]

\* The part of the body read before reading fails.
ReadPart(body) == SubSeq(body, 1, Len(body) \div 2)

\* Client.Get on a response: error and bytes.
ClientGet(resp) ==
    IF resp.doErr THEN [err |-> TRUE, data |-> <<>>]
    ELSE IF resp.StatusCode # StatusOK THEN [err |-> TRUE, data |-> <<>>]
    ELSE IF resp.readErr THEN [err |-> TRUE, data |-> ReadPart(resp.Body)]
    ELSE [err |-> FALSE, data |-> resp.Body]

\* Client.GetString: the text is empty when Get fails.
ClientGetString(resp) ==
    LET got == ClientGet(resp)
    IN  IF got.err THEN [err |-> TRUE, data |-> <<>>] ELSE got

\* Client.GetFileSize on the response to the HEAD request.
ClientGetFileSize(resp) ==
    IF resp.doErr THEN [err |-> TRUE, data |-> 0]
    ELSE IF resp.ContentLength < 0 THEN [err |-> TRUE, data |-> 0]
    ELSE [err |-> FALSE, data |-> resp.ContentLength]

\* Client.DownloadFile: the error and the file at destPath afterwards,
\* "none" when it was not created.
ClientDownloadFile(resp, createErr) ==
    IF resp.doErr THEN [err |-> TRUE, data |-> "none"]
    ELSE IF resp.StatusCode # StatusOK THEN [err |-> TRUE, data |-> "none"]
    ELSE IF createErr THEN [err |-> TRUE, data |-> "none"]
    ELSE IF resp.readErr THEN [err |-> TRUE, data |-> ReadPart(resp.Body)]
    ELSE [err |-> FALSE, data |-> resp.Body]

ClientDownloadBytes(resp) == ClientGet(resp)

CallGetString ==
    /\ callFn = "none"
    /\ \E resp \in Responses :
         /\ callArg' = resp
         /\ callRes' = ClientGetString(resp)
    /\ callFn' = "GetString"
    /\ UNCHANGED <<managerVars, tuiVars, releaseVars>>

CallGetFileSize ==
    /\ callFn = "none"
    /\ \E resp \in Responses :
         /\ callArg' = resp
         /\ callRes' = ClientGetFileSize(resp)
    /\ callFn' = "GetFileSize"
    /\ UNCHANGED <<managerVars, tuiVars, releaseVars>>

CallDownloadFile ==
    /\ callFn = "none"
    /\ \E resp \in Responses, createErr \in BOOLEAN :
         /\ callArg' = resp
         /\ callRes' = ClientDownloadFile(resp, createErr)
    /\ callFn' = "DownloadFile"
    /\ UNCHANGED <<managerVars, tuiVars, releaseVars>>

CallDownloadBytes ==
    /\ callFn = "none"
    /\ \E resp \in Responses :
         /\ callArg' = resp
         /\ callRes' = ClientDownloadBytes(resp)
    /\ callFn' = "DownloadBytes"
    /\ UNCHANGED <<managerVars, tuiVars, releaseVars>>

NextHTTP == CallGetString \/ CallGetFileSize \/ CallDownloadFile \/ CallDownloadBytes

SpecHTTP == NoManager /\ [][NextHTTP]_vars

\* ------------------------------------------------------------ URL input
\*
\* The text given to Initialize is a sequence of lexemes: "u1" and "u2" are
\* URLs that start with https:// , "x" is other text, "," the comma, " " a
\* space and "\n" the line feed. A line and a URL are sequences of lexemes.

MaxInputLen == 4   \* lexemes of the input text

InputLexemes == {"u1", "u2", "x", ",", " ", "\n"}

\* strings.Split(input, sep) for a one-character separator.
RECURSIVE Split(_, _)
Split(input, sep) ==
    LET seps == {i \in 1..Len(input) : input[i] = sep}
    IN  IF seps = {} THEN <<input>>
        ELSE LET first == CHOOSE i \in seps : \A j \in seps : i <= j
             IN  <<SubSeq(input, 1, first - 1)>>
                    \o Split(SubSeq(input, first + 1, Len(input)), sep)

\* strings.TrimSpace.
TrimSpace(line) ==
    LET kept == {i \in 1..Len(line) : line[i] \notin WhitespaceChars}
    IN  IF kept = {} THEN <<>>
        ELSE SubSeq(line, CHOOSE i \in kept : \A j \in kept : i <= j,
                          CHOOSE i \in kept : \A j \in kept : j <= i)

\* strings.HasPrefix(line, "http://") || strings.HasPrefix(line, "https://")
HasHTTPPrefix(line) == line # <<>> /\ line[1] \in {"u1", "u2"}

\* Manager.parseInputURLs on the text: the trimmed lines that are URLs.
parseInputText(input) ==
    LET lines == Split(input, "\n")
        trimmed == [i \in 1..Len(lines) |-> TrimSpace(lines[i])]
    IN  SelectSeq(trimmed, HasHTTPPrefix)

CallParseInputURLs ==
    /\ callFn = "none"
    /\ \E input \in TextsOver(InputLexemes, MaxInputLen) :
         /\ callArg' = input
         /\ callRes' = parseInputText(input)
    /\ callFn' = "parseInputURLs"
    /\ UNCHANGED <<managerVars, tuiVars, releaseVars>>

NextInput == CallParseInputURLs

SpecInput == NoManager /\ [][NextInput]_vars

\* --------------------------------------------------------- Terminal UI

MaxRuns == 2     \* times enter starts initializeDownload
MaxResets == 2   \* times 'r' makes a new context

\* context.Context.Err() # nil
CtxErr(ctx) == ctx \in cancelledCtx

\* A command Update returned: initializeDownload or startDownload, with the
\* context and the manager of the Model copy its closure holds.
Cmd(kind, run, ctx, manager) == [kind |-> kind, run |-> run, ctx |-> ctx, manager |-> manager]

\* InitDoneMsg and DownloadDoneMsg, with Err # nil as err.
Msg(kind, run, err) == [kind |-> kind, run |-> run, err |-> err]

\* What the steps of the terminal UI leave alone.
notTuiVars == <<managerVars, callVars, releaseVars>>

\* Update, tea.KeyMsg "ctrl+c": cancel and quit.
KeyCtrlC ==
    /\ ~uiQuit
    /\ cancelledCtx' = cancelledCtx \cup {uiCtx}
    /\ uiQuit' = TRUE
    /\ handled' = NoMsg
    /\ UNCHANGED <<uiState, uiText, uiCtx, uiManager, cmds, msgs, numRuns, uiRun, cancelledRuns>>
    /\ UNCHANGED notTuiVars

\* Update, tea.KeyMsg "esc": quit from the input screen; cancel the context
\* and show the error screen while initializing or downloading.
KeyEsc ==
    /\ ~uiQuit
    /\ IF uiState = "Input"
       THEN /\ uiQuit' = TRUE
            /\ UNCHANGED <<uiState, cancelledCtx, cancelledRuns>>
       ELSE IF uiState \in {"Downloading", "Initializing"}
            THEN /\ cancelledCtx' = cancelledCtx \cup {uiCtx}
                 /\ uiState' = "Error"
                 /\ cancelledRuns' = cancelledRuns \cup {uiRun}
                 /\ UNCHANGED uiQuit
            ELSE UNCHANGED <<uiState, cancelledCtx, cancelledRuns, uiQuit>>
    /\ handled' = NoMsg
    /\ UNCHANGED <<uiText, uiCtx, uiManager, cmds, msgs, numRuns, uiRun>>
    /\ UNCHANGED notTuiVars

\* Update, tea.KeyMsg "enter" on the input screen with a text:
\* initializeDownload is started with the Model's context.
KeyEnter ==
    /\ ~uiQuit
    /\ uiState = "Input"
    /\ uiText
    /\ numRuns < MaxRuns
    /\ uiState' = "Initializing"
    /\ numRuns' = numRuns + 1
    /\ uiRun' = numRuns + 1
    /\ cmds' = cmds \cup {Cmd("init", numRuns + 1, uiCtx, 0)}
    /\ handled' = NoMsg
    /\ UNCHANGED <<uiText, uiCtx, uiManager, uiQuit, cancelledCtx, msgs, cancelledRuns>>
    /\ UNCHANGED notTuiVars

\* Update, tea.KeyMsg "r" on the complete or error screen: back to the input
\* screen with no manager, an empty text and a new context.
KeyR ==
    /\ ~uiQuit
    /\ uiState \in {"Complete", "Error"}
    /\ uiCtx <= MaxResets
    /\ uiState' = "Input"
    /\ uiManager' = 0
    /\ uiCtx' = uiCtx + 1
    /\ uiText' = FALSE
    /\ handled' = NoMsg
    /\ UNCHANGED <<uiQuit, cancelledCtx, cmds, msgs, numRuns, uiRun, cancelledRuns>>
    /\ UNCHANGED notTuiVars

\* Update, tea.KeyMsg "q" on the complete or error screen: quit.
KeyQ ==
    /\ ~uiQuit
    /\ uiState \in {"Complete", "Error"}
    /\ uiQuit' = TRUE
    /\ handled' = NoMsg
    /\ UNCHANGED <<uiState, uiText, uiCtx, uiManager, cancelledCtx, cmds, msgs, numRuns,
                   uiRun, cancelledRuns>>
    /\ UNCHANGED notTuiVars

\* Update's last step on the input screen: the key goes to the text input.
KeyText ==
    /\ ~uiQuit
    /\ uiState = "Input"
    /\ \E empty \in BOOLEAN : uiText' = ~empty
    /\ handled' = NoMsg
    /\ UNCHANGED <<uiState, uiCtx, uiManager, uiQuit, cancelledCtx, cmds, msgs, numRuns,
                   uiRun, cancelledRuns>>
    /\ UNCHANGED notTuiVars

\* The initializeDownload command returns: Manager.Initialize always
\* returns nil, so the message carries the manager and no error.
InitCmdEnd ==
    /\ ~uiQuit
    /\ \E c \in cmds :
         /\ c.kind = "init"
         /\ cmds' = cmds \ {c}
         /\ msgs' = msgs \cup {Msg("InitDone", c.run, FALSE)}
    /\ handled' = NoMsg
    /\ UNCHANGED <<uiState, uiText, uiCtx, uiManager, uiQuit, cancelledCtx, numRuns, uiRun,
                   cancelledRuns>>
    /\ UNCHANGED notTuiVars

\* The startDownload command returns: "no manager", or what StartDownloads
\* returned.
DownloadCmdEnd ==
    /\ ~uiQuit
    /\ \E c \in cmds, err \in BOOLEAN :
         /\ c.kind = "download"
         /\ c.manager = 0 => err
         /\ cmds' = cmds \ {c}
         /\ msgs' = msgs \cup {Msg("DownloadDone", c.run, err)}
    /\ handled' = NoMsg
    /\ UNCHANGED <<uiState, uiText, uiCtx, uiManager, uiQuit, cancelledCtx, numRuns, uiRun,
                   cancelledRuns>>
    /\ UNCHANGED notTuiVars

\* Update, InitDoneMsg: the error screen on an error; otherwise the manager
\* is kept, the screen is Downloading and startDownload is started.
HandleInitDone ==
    /\ ~uiQuit
    /\ \E msg \in msgs :
         /\ msg.kind = "InitDone"
         /\ msgs' = msgs \ {msg}
         /\ IF msg.err
            THEN /\ uiState' = "Error"
                 /\ handled' = [kind |-> "InitDone", run |-> msg.run, started |-> FALSE]
                 /\ UNCHANGED <<uiManager, cmds, uiRun>>
            ELSE /\ uiManager' = msg.run
                 /\ uiState' = "Downloading"
                 /\ uiRun' = msg.run
                 /\ cmds' = cmds \cup {Cmd("download", msg.run, uiCtx, msg.run)}
                 /\ handled' = [kind |-> "InitDone", run |-> msg.run, started |-> TRUE]
    /\ UNCHANGED <<uiText, uiCtx, uiQuit, cancelledCtx, numRuns, cancelledRuns>>
    /\ UNCHANGED notTuiVars

\* Update, DownloadDoneMsg: the error screen on an error or when the Model's
\* context is cancelled, the complete screen otherwise.
HandleDownloadDone ==
    /\ ~uiQuit
    /\ \E msg \in msgs :
         /\ msg.kind = "DownloadDone"
         /\ msgs' = msgs \ {msg}
         /\ uiState' = IF msg.err /\ ~CtxErr(uiCtx) THEN "Error"
                       ELSE IF CtxErr(uiCtx) THEN "Error"
                       ELSE "Complete"
         /\ handled' = [kind |-> "DownloadDone", run |-> msg.run, started |-> FALSE]
    /\ UNCHANGED <<uiText, uiCtx, uiManager, uiQuit, cancelledCtx, cmds, numRuns, uiRun,
                   cancelledRuns>>
    /\ UNCHANGED notTuiVars

NextTui ==
    \/ KeyCtrlC
    \/ KeyEsc
    \/ KeyEnter
    \/ KeyR
    \/ KeyQ
    \/ KeyText
    \/ InitCmdEnd
    \/ DownloadCmdEnd
    \/ HandleInitDone
    \/ HandleDownloadDone

SpecTui == NoManager /\ [][NextTui]_vars

\* ------------------------------------------------------- shared facts

\* The tracks of album a whose task returned without an error.
Succeeded(a) == {t \in TracksOf(a) : track[t].result \in {"ok", "skipped"}}

\* cooldown * exponent^i for the failed attempts 0 .. n-1, in milliseconds.
BackoffWaits(n) == [i \in 1..n |-> DownloadRetryCooldownMs * Pow(DownloadRetryExponent, i - 1)]

\* ------------------------------------------------------------- claims

\* C1: if the cancellation signal is raised while StartDownloads runs with
\* transfers unfinished, StartDownloads returns the Cancelled error (a
\* non-nil result distinct from success and from any transfer error).
C1_CancelledRunReturnsCancelled ==
    (sdPc = "returned" /\ cancelledMidRun) => sdResult = "cancelled"

\* C2: StartDownloads returns an error only when the run was cancelled, and a
\* failure confined to one release never cancels the transfers of the others
\* (the group's context is done only by the caller's cancel while it runs).
C2_ErrorOnlyWhenCancelled ==
    /\ (sdPc = "returned" /\ sdResult # "nil") => ctxCancelled
    /\ (sdPc \in {"spawn", "wait"} /\ ~ctxCancelled) => ~GroupCtxDone

\* C3: after the cancellation signal no task that had not started is
\* started: no downloadAlbum and no downloadTrack begins.
C3_NoTaskStartsAfterCancel == ~lateAlbumStart /\ ~lateTrackStart

\* C4: a track that exhausts its retries does not cancel or abort its
\* siblings: while an album's tracks run, their context is done only when the
\* group's is; once the album is through, every track was attempted (or
\* skipped) and every sibling that succeeded is counted.
C4_FailedTrackDoesNotAbortSiblings ==
    \A a \in 1..Len(albums) :
        /\ (album[a].pc \in {"spawn", "wait"} /\ ~GroupCtxDone) => ~AlbumCtxDone(a)
        /\ (album[a].pc = "done" /\ album[a].mkdirErrEv = 0) =>
               /\ \A t \in TracksOf(a) :
                      /\ track[t].pc = "done"
                      /\ track[t].result = "skipped" \/ track[t].attempts >= 1
               /\ album[a].successCount = Cardinality(Succeeded(a))
        /\ album[a].successCount
               = Cardinality({t \in Succeeded(a) : track[t].pc = "done"})

C4_Witness ==
    \E a \in 1..Len(albums) : \E t, u \in TracksOf(a) :
        /\ ~ctxCancelled
        /\ track[t].result = "err"
        /\ track[t].attempts = settings.DownloadMaxRetries
        /\ track[u].pc = "inflight"
        /\ ~AlbumCtxDone(a)

\* C5: a track whose every transfer attempt fails gets exactly
\* DownloadMaxRetries attempts, no more and no fewer, and afterwards exactly
\* one per-file error event.
C5_ExactlyMaxRetriesAttempts ==
    \A t \in TrackIds :
        /\ track[t].attempts <= settings.DownloadMaxRetries
        /\ track[t].errEv = (IF track[t].result = "err" THEN 1 ELSE 0)
        /\ track[t].result = "err" =>
               /\ track[t].pc = "done"
               /\ track[t].attempts = settings.DownloadMaxRetries
               /\ track[t].retryEv = settings.DownloadMaxRetries
        /\ (track[t].pc = "done" /\ track[t].retryEv = track[t].attempts
              /\ track[t].result # "skipped") => track[t].result = "err"

C5_Witness ==
    \E t \in TrackIds :
        /\ ~ctxCancelled
        /\ settings.DownloadMaxRetries = 3
        /\ track[t].result = "err"
        /\ track[t].attempts = 3
        /\ track[t].errEv = 1

\* C6: for an always-failing transfer with max attempts N the wait after
\* failed attempt i lasts cooldown * exponent^i, and there are exactly N-1
\* waits: none after the final attempt.
C6_WaitsOnlyBetweenAttempts ==
    \A t \in TrackIds :
        track[t].result = "err" =>
            track[t].waits = BackoffWaits(settings.DownloadMaxRetries - 1)

\* C7: an existing file whose size is within AllowedFileSizeDifference of the
\* probed size is counted as completed without a transfer attempt; a larger
\* difference, a missing file or a failed probe makes the track transfer.
C7_SkipRule ==
    lastStat # NoStat =>
        LET tr == track[lastStat.t]
            within == /\ lastStat.remote > 0
                      /\ 20 * Abs(lastStat.local - lastStat.remote) <= lastStat.remote
        IN  IF lastStat.exists /\ lastStat.probeOk /\ within
            THEN /\ tr.pc = "done"
                 /\ tr.result = "skipped"
                 /\ tr.attempts = 0
                 /\ lastStat.t \in Succeeded(lastStat.t[1])
                 /\ downloadedFiles >= 1
            ELSE /\ tr.result # "skipped"
                 /\ tr.attempts = 1

C7_Witness ==
    /\ lastStat.exists
    /\ lastStat.probeOk
    /\ lastStat.local = 105
    /\ lastStat.remote = 100
    /\ track[lastStat.t].result = "skipped"
    /\ track[lastStat.t].attempts = 0

\* downloadArtwork of album a is between its first call and its return.
ArtworkInProgress(a) == IF album[a].pc \in {"artwork", "artBackoff"} THEN 1 ELSE 0

\* C8: at most MaxConcurrentAlbumsDownload releases are downloaded at once,
\* and within a release at most MaxConcurrentTracksDownload asset transfers
\* (tracks and the artwork) are in progress at once.
C8_ConcurrencyLimits ==
    /\ RunningAlbums <= settings.MaxConcurrentAlbumsDownload
    /\ \A a \in AlbumIds :
         RunningTracks(a) + ArtworkInProgress(a) <= settings.MaxConcurrentTracksDownload

C8_Witness ==
    /\ sdPc = "spawn"
    /\ settings.MaxConcurrentAlbumsDownload < Len(albums)
    /\ RunningAlbums = settings.MaxConcurrentAlbumsDownload
    /\ \E a \in AlbumIds :
         /\ album[a].pc = "spawn"
         /\ settings.MaxConcurrentTracksDownload < albums[a].tracks
         /\ RunningTracks(a) = settings.MaxConcurrentTracksDownload

\* C9: a release whose download finishes is reported fully successful iff
\* every one of its tracks succeeded (transferred or skipped), otherwise as
\* a partial failure; the files of the tracks that succeeded stay in place.
C9_ReleaseOutcome ==
    \A a \in 1..Len(albums) :
        /\ album[a].report # "none" <=> (album[a].pc = "done" /\ album[a].mkdirErrEv = 0)
        /\ album[a].report = "success" => Succeeded(a) = TracksOf(a)
        /\ album[a].report = "warning" => Succeeded(a) # TracksOf(a)
        /\ \A t \in TracksOf(a) :
               /\ track[t].result = "ok" => track[t].file = "full"
               /\ track[t].result = "skipped" => track[t].file = "old"

C9_Witness ==
    \E a \in 1..Len(albums) : \E t, u \in TracksOf(a) :
        /\ album[a].report = "warning"
        /\ track[t].result = "ok"
        /\ track[t].file = "full"
        /\ track[u].result = "err"

\* An album URL of the running Initialize call whose page was fetched and parsed.
ParsedOk(html) == ~html.err /\ ParseAlbumPage(html.body).err = "nil"

\* The Error events Initialize's second loop emitted for album URL i.
FetchErrorEvents(i) ==
    {k \in 1..Len(initEvents) :
        /\ initEvents[k].level = "error"
        /\ initEvents[k].step \in {"fetch", "parse"}
        /\ initEvents[k].idx = i}

\* C10: in Initialize a URL whose fetch fails, whose page has no data blob or
\* an unterminated one, or whose blob does not decode gets one Error event and
\* nothing else: Initialize never returns an error, every album URL is
\* processed, each URL that parsed gets no Error event, and when Initialize
\* returns the release list is what it was plus the releases of the URLs that
\* parsed, in input order.
C10_FailedURLIsSkipped ==
    /\ initResult \in {"none", "nil"}
    /\ \A i \in 1..Len(fetched) :
         Cardinality(FetchErrorEvents(i)) = IF ParsedOk(fetched[i]) THEN 0 ELSE 1
    /\ initPc = "returned" =>
         LET parsed == SelectSeq(fetched, ParsedOk)
         IN  /\ initResult = "nil"
             /\ Len(fetched) = Len(allAlbumURLs)
             /\ albums = albumsBefore
                    \o [i \in 1..Len(parsed) |-> ParseAlbumPage(parsed[i].body).album]

\* Four album URLs: the first fails to fetch, the third has an unterminated
\* blob, the second and the fourth parse.
C10_Witness ==
    /\ initPc = "returned"
    /\ Len(fetched) = 4
    /\ fetched[1].err
    /\ fetched[2] = [err |-> FALSE, body |-> <<"M", "q", "{", "t1", "}", "q">>]
    /\ fetched[3] = [err |-> FALSE, body |-> <<"h", "M", "q", "{", "t1", "h">>]
    /\ fetched[4] = [err |-> FALSE,
                     body |-> <<"h", "M", "q", "{", "a", "t1", "n1", "t2", "}", "q", "h">>]
    /\ Len(albums) = 2
    /\ albums[1].tracks = 1 /\ ~albums[1].hasArtwork
    /\ albums[2].tracks = 2 /\ albums[2].hasArtwork
    /\ Len(initEvents) = 4
    /\ initResult = "nil"

\* The trackinfo records of a page, in page order.
RecordsOf(html) == SelectSeq(html, LAMBDA l : l \in TrackLexemes)

\* C11: for a release page whose track records include N records carrying a
\* file reference, ParseAlbumPage returns a release with exactly those N
\* tracks in the order of the page; a record without a file reference is
\* dropped and causes no error.
C11_TracksWithFileInOrder ==
    callFn = "ParseAlbumPage" =>
        LET withFile == SelectSeq(RecordsOf(callArg), LAMBDA l : l \in {"t1", "t2", "t3"})
        IN  /\ callRes.err = "nil" =>
                /\ callRes.album.Tracks = withFile
                /\ callRes.album.tracks = Len(withFile)
            /\ callRes.err # "nil" =>
                \E i \in 1..Len(callArg) : callArg[i] \in {"Rx", "Cx", "Bx"}

C11_Witness ==
    /\ callFn = "ParseAlbumPage"
    /\ RecordsOf(callArg) = <<"t2", "n1", "t1">>
    /\ callRes.err = "nil"
    /\ callRes.album.Tracks = <<"t2", "t1">>

\* The date a page gives for one of the three members: 0 when the member is
\* absent, null or the empty string.
DateGiven(html, lexemes) ==
    IF \E i \in 1..Len(html) : html[i] = "R1" /\ html[i] \in lexemes THEN 1
    ELSE IF \E i \in 1..Len(html) : html[i] = "C2" /\ html[i] \in lexemes THEN 2
    ELSE IF \E i \in 1..Len(html) : html[i] = "B3" /\ html[i] \in lexemes THEN 3
    ELSE 0

\* C12: the resolved release date is the first non-empty value among the
\* top-level date, the nested declared release date and the nested publish
\* date, where absent, null and the empty string count as empty; it is
\* unknown (the zero time) only when all three are empty.
C12_FirstNonEmptyDateWins ==
    (callFn = "ParseAlbumPage" /\ callRes.err = "nil") =>
        LET top == DateGiven(callArg, TopDateLexemes)
            declared == DateGiven(callArg, DeclaredDateLexemes)
            publish == DateGiven(callArg, PublishDateLexemes)
        IN  callRes.album.ReleaseDate =
                IF top # 0 THEN top ELSE IF declared # 0 THEN declared ELSE publish

\* C15: extractAlbumData fails with NotFound when the page lacks the marker
\* data-tralbum="{ , fails with another error when no }" follows the marker,
\* and otherwise returns the text from the opening brace through the brace
\* of the first }" after the marker, HTML-unescaped.
C15_BlobExtraction ==
    callFn = "extractAlbumData" =>
        LET html == callArg
            markers == {i \in 1..(Len(html) - 2) :
                           html[i] = "M" /\ html[i + 1] = "q" /\ html[i + 2] = "{"}
            open == 2 + CHOOSE i \in markers : \A j \in markers : i <= j
            closers == {j \in (open + 1)..(Len(html) - 1) :
                           html[j] = "}" /\ html[j + 1] = "q"}
            close == CHOOSE j \in closers : \A k \in closers : j <= k
        IN  IF markers = {} THEN callRes.err = "NotFound"
            ELSE IF closers = {} THEN callRes.err = "NoEnd"
            ELSE /\ callRes.err = "nil"
                 /\ callRes.data =
                        [i \in 1..(close - open + 1) |->
                            IF html[open + i - 1] = "Q" THEN "q" ELSE html[open + i - 1]]

C15_Witness ==
    /\ callFn = "extractAlbumData"
    /\ callArg = <<"M", "q", "{", "Q", "}", "q", "}">>
    /\ callRes = [err |-> "nil", data |-> <<"{", "q", "}">>]

\* The connectives that join the two literals of a url value: url: " , the
\* first literal, " + " , the second literal, ", .
URLConnectives(text) ==
    {p \in 1..Len(text) :
        /\ text[p] = "P"
        /\ \E s \in 1..(p - 2), t \in (p + 2)..Len(text) :
             /\ text[s] = "U"
             /\ text[t] = "T"
             /\ \A k \in ((s + 1)..(t - 1)) \ {p} : text[k] = "h"}

\* The text without the lexemes at the given positions.
RECURSIVE Without(_, _, _)
Without(text, positions, i) ==
    IF i > Len(text) THEN <<>>
    ELSE (IF i \in positions THEN <<>> ELSE <<text[i]>>) \o Without(text, positions, i + 1)

\* C16: fixJSON removes the connective inside a url value written as two
\* concatenated string literals and returns every other part of the text
\* unchanged, a connective outside the url value included; a text whose url
\* value is already one literal is returned unchanged.
C16_FixJSONTouchesOnlyURL ==
    callFn = "fixJSON" => callRes = Without(callArg, URLConnectives(callArg), 1)

\* The url groups of the links of a page, each once, in the order of their
\* first occurrence.
RECURSIVE FirstSeen(_, _)
FirstSeen(html, seen) ==
    IF html = <<>> THEN <<>>
    ELSE IF MatchesLink(Head(html)) /\ URLOf(Head(html)) \notin seen
    THEN <<URLOf(Head(html))>> \o FirstSeen(Tail(html), seen \cup {URLOf(Head(html))})
    ELSE FirstSeen(Tail(html), seen)

\* C13: for a listing page without the single-release marker GetAlbumURLs
\* returns every distinct matched link once, in the order of its first
\* occurrence in the page.
C13_LinksInFirstSeenOrder ==
    (callFn = "GetAlbumURLs" /\ ~isSingleAlbumArtist(callArg) /\ callRes.err = "nil") =>
        callRes.urls = FirstSeen(callArg, {})

\* C14: with the single-release marker in the page GetAlbumURLs returns a URL
\* if and only if the page has exactly one anchor matching the release-link
\* pattern, and that URL is the result; with no such anchor or with two or
\* more it fails with the error for an ambiguous page.
C14_SingleReleaseExactlyOneAnchor ==
    (callFn = "GetAlbumURLs" /\ isSingleAlbumArtist(callArg)) =>
        LET anchors == {i \in 1..Len(callArg) : MatchesAlbumAnchor(callArg[i])}
        IN  IF Cardinality(anchors) = 1
            THEN /\ callRes.err = "nil"
                 /\ callRes.urls = <<URLOf(callArg[CHOOSE i \in anchors : TRUE])>>
            ELSE callRes.err = "multiple"

\* C17: the output of sanitizeFileName holds none of the invalid characters
\* and no two whitespace characters in a row, and ends neither with a dot nor
\* with a whitespace character.
C17_SanitizedNameIsClean ==
    callFn = "sanitizeFileName" =>
        /\ \A i \in 1..Len(callRes) : callRes[i] \notin InvalidChars
        /\ \A i \in 1..(Len(callRes) - 1) :
             ~(callRes[i] \in WhitespaceChars /\ callRes[i + 1] \in WhitespaceChars)
        /\ callRes # <<>> => callRes[Len(callRes)] \notin ({"."} \cup WhitespaceChars)

\* A file path is the file name joined to the directory, or a shortened one:
\* the directory, a prefix of the file name before its extension, and the
\* extension.
KeepsExtension(dir, fileName, ext, filePath) ==
    \/ filePath = Join(dir, fileName \o ext)
    \/ \E k \in 0..Len(fileName) : filePath = Join(dir, SubSeq(fileName, 1, k) \o ext)

\* C18: the directory of a release is shorter than 248 characters and its
\* playlist, artwork and track paths are shorter than 260 characters; a
\* shortened file path keeps the directory and the extension and cuts only
\* the file name.
C18_PathsWithinLimits ==
    /\ callFn = "NewAlbum" =>
         /\ Len(callRes.Path) < MaxFolderPathLen
         /\ Len(callRes.PlaylistPath) < MaxFilePathLen
         /\ Len(callRes.ArtworkPath) < MaxFilePathLen
         /\ KeepsExtension(callRes.Path,
                           parseAlbumFileName(callRes, callArg.cfg.PlaylistFileNameFormat),
                           Extension(callArg.cfg.PlaylistFormat), callRes.PlaylistPath)
         /\ HasArtwork(callRes) =>
              KeepsExtension(callRes.Path,
                             parseAlbumFileName(callRes, callArg.cfg.CoverArtFileNameFormat),
                             Ext(callRes.ArtworkURL), callRes.ArtworkPath)
    /\ callFn = "NewTrack" =>
         LET fileName == parseFileName(callRes, [FileNameFormat |-> callArg.format])
             ext == Ext(fileName)
         IN  /\ Len(callRes.Path) < MaxFilePathLen
             /\ KeepsExtension(callRes.Album.Path,
                               SubSeq(fileName, 1, Len(fileName) - Len(ext)), ext,
                               callRes.Path)

\* C19: GetString, GetFileSize, DownloadFile and DownloadBytes return an
\* error whenever a response arrives whose status is not 200, and then give
\* the caller no text, no size and no file content.
C19_Non200IsError ==
    (callFn \in {"GetString", "GetFileSize", "DownloadFile", "DownloadBytes"}
        /\ ~callArg.doErr /\ callArg.StatusCode # StatusOK) =>
        /\ callRes.err
        /\ callFn \in {"GetString", "DownloadBytes"} => callRes.data = <<>>
        /\ callFn = "GetFileSize" => callRes.data = 0
        /\ callFn = "DownloadFile" => callRes.data = "none"

\* A text of URLs with one separator, a comma or a line feed, between each
\* two of them.
SeparatedURLs(input) ==
    /\ Len(input) % 2 = 1
    /\ \A i \in 1..Len(input) :
         IF i % 2 = 1 THEN input[i] \in {"u1", "u2"} ELSE input[i] \in {",", "\n"}

\* C20: of an input text that holds several URLs separated by commas or by
\* line feeds, parseInputURLs makes one input URL per URL, in their order.
C20_EachURLIsOneInput ==
    (callFn = "parseInputURLs" /\ SeparatedURLs(callArg)) =>
        callRes = [i \in 1..((Len(callArg) + 1) \div 2) |-> <<callArg[2 * i - 1]>>]

\* The files that were completed: the tracks that succeeded or were skipped
\* and the artworks that were downloaded.
CompletedFiles ==
    Cardinality({t \in TrackIds : track[t].result \in {"ok", "skipped"}})
        + Cardinality({a \in AlbumIds : album[a].artResult = "ok"})

\* C21: the bytes-received and files-completed values GetProgress returns
\* never decrease from one step to the next, and files-completed counts
\* every completed file, also when tasks of several tracks complete
\* concurrently.
C21_ProgressNeverDecreases ==
    [][/\ receivedBytes' >= receivedBytes
       /\ downloadedFiles' >= downloadedFiles
       /\ downloadedFiles' = CompletedFiles']_vars

\* Two track tasks of one album ran under a limit of two and completed, one
\* by a transfer and one by the skip rule, after the artwork: all three files
\* are counted.
C21_Witness ==
    /\ \E a \in 1..Len(albums) :
         /\ albums[a].tracks = 2
         /\ album[a].artResult = "ok"
         /\ track[<<a, 1>>].result = "ok"
         /\ track[<<a, 2>>].result = "skipped"
    /\ downloadedFiles >= 3
    /\ settings.MaxConcurrentTracksDownload = 2

\* C22: when an Initialize call has returned, files-expected is the number
\* of assets of the releases in the release list, each counted once, and
\* bytes-expected is at most the size of one successful probe per asset,
\* however many Initialize calls were made.
C22_TotalsCountEachAssetOnce ==
    initPc = "returned" =>
        /\ totalFiles = CountFiles(albums)
        /\ totalBytes <= CountFiles(albums) * ProbedSize

\* C23: once StartDownloads is called it eventually returns, under every
\* configuration, with or without a cancellation.
C23_StartDownloadsReturns == (sdPc # "idle") ~> (sdPc = "returned")

\* C24: when the context is cancelled while a track's retry loop is in its
\* backoff wait, no further DownloadFile call and no further wait is made
\* for that track.
C24_CancelEndsRetrySequence ==
    [][\A t \in TrackIds :
         (ctxCancelled /\ track[t].pc = "backoff") =>
             /\ track'[t].attempts = track[t].attempts
             /\ Len(track'[t].waits) = Len(track[t].waits)]_vars

\* C25: for every retry budget, a track is counted and reported as downloaded
\* only after a DownloadFile call of its own returned success (or it was
\* skipped), and an artwork only after a DownloadBytes call returned success.
C25_CountedOnlyAfterSuccess ==
    /\ \A t \in TrackIds : track[t].result = "ok" => track[t].file = "full"
    /\ \A a \in AlbumIds : album[a].artResult = "ok" => album[a].artwork
    /\ downloadedFiles = CompletedFiles

\* C26: when StartDownloads returns from a run without cancellation in which
\* every file was transferred or skipped, the number of completed files
\* equals the number of expected files, whatever the cover-art settings.
AllSucceeded ==
    /\ sdPc = "returned"
    /\ ~ctxCancelled
    /\ sdResult = "nil"
    /\ \A a \in 1..Len(albums) :
         /\ album[a].mkdirErrEv = 0
         /\ album[a].artResult # "err"
         /\ \A t \in TracksOf(a) : track[t].result \in {"ok", "skipped"}

C26_CompletedEqualsExpected == AllSucceeded => downloadedFiles = totalFiles

\* C27: when StartDownloads returns after every transfer succeeded, the
\* bytes-received counter equals the number of bytes the transfers of the run
\* wrote, so it is positive when a file was transferred.
BytesWritten ==
    ProbedSize * (Cardinality({t \in TrackIds : track[t].file = "full"})
                  + Cardinality({a \in AlbumIds : album[a].artwork}))

C27_ReceivedBytesMatchWritten ==
    (AllSucceeded /\ \A t \in TrackIds : track[t].result # "skipped")
        => receivedBytes = BytesWritten

\* C28: with SaveCoverArtInTags off, SaveTags is never given artwork bytes,
\* whatever SaveCoverArtInFolder and ModifyTags are.
C28_NoArtworkInTagsWhenOff ==
    ~settings.SaveCoverArtInTags => \A t \in TrackIds : track[t].tagged # "artwork"

\* C29: after esc cancelled a run, handling that run's InitDoneMsg or
\* DownloadDoneMsg never leaves the screen on Downloading or Complete and
\* never starts a download, before or after a reset with 'r'.
C29_CancelledRunStaysCancelled ==
    handled.run \in cancelledRuns =>
        /\ uiState \notin {"Downloading", "Complete"}
        /\ ~handled.started

\* C30: the paths of a release and of each of its tracks keep the value
\* they got at construction through every later operation: attaching
\* tracks, the lyrics pass, the totals, and the steps of the download.
C30_PathsSetOnce ==
    [][relPc # "none" =>
         /\ release'.Path = release.Path
         /\ release'.ArtworkPath = release.ArtworkPath
         /\ release'.PlaylistPath = release.PlaylistPath
         /\ \A i \in 1..Len(release.Tracks) :
              release'.Tracks[i].Path = release.Tracks[i].Path]_vars

C30_Witness ==
    /\ relPc = "done"
    /\ Len(release.Tracks) = MaxReleaseTracks
    /\ \E i \in 1..Len(release.Tracks) : release.Tracks[i].Lyrics # <<>>
    /\ \A i \in 1..Len(release.Tracks) : release.Tracks[i].Path \in disk
    /\ {release.Path, release.ArtworkPath, release.PlaylistPath} \subseteq disk
    /\ HasArtwork(release)

====
